---- MODULE Spec2Model ----
(***************************************************************************)
(* A model of the umux session engine: the History buffer, one PTY session *)
(* with its event fan-out, the Umux registry operations and the waitFor    *)
(* resolver with its timers.  Strings are sequences of one-character       *)
(* strings; a regular expression is modelled by the literal it searches.   *)
(* One unit of the clock `now` stands for TickMs milliseconds.             *)
(***************************************************************************)
EXTENDS Integers, Sequences, FiniteSets, TLC

\* ------------------------------------------------------------------ bounds
MaxChunks == 2      \* PTY chunks read per behaviour
MaxTime == 3        \* last value of the clock
MaxWaits == 1       \* waitFor calls per behaviour
PairWaits == 2      \* waitFor calls per behaviour where waits run concurrently
WaitTimeout == 2    \* the positive timeout the modelled calls pass (ticks)
IdleWindow == 1     \* the positive idle window the modelled calls pass (ticks)
MaxHistLimit == 3   \* largest History capacity tried
MaxAppends == 3     \* History.append calls per behaviour
MaxFires == 3       \* fire() calls on the hook manager
MaxPolls == 3       \* ticks of the registry's ready poller
MaxCalls == 2       \* registry calls by session id per behaviour
MaxSends == 2       \* send, sendKey and sendKeys calls per behaviour
MaxTail == 5        \* largest n passed to tail
MaxMatches == 4     \* matches a stepwise search collects before the model stops it
MaxEmitOps == 5     \* on, off and emit calls per behaviour
MaxOutChunks == 3   \* chunks delivered by ptyProcess.onData per behaviour
MaxReplayBytes == 6 \* maxReplayBytes, scaled down from 2 * 1024 * 1024

\* ------------------------------------------------------- program constants
TickMs == 100           \* the ready poll period, the unit of the clock
ScanTailLimit == 8192   \* scanTailLimit = 8 * 1024
HistoryLimit == 10000   \* config.historyLimit default

ReadyPollTicks == 100 \div TickMs

NL == "\n"
NoTimer == -1
NoCode == -1            \* _exitCode = null

\* ------------------------------------------------------------ string helpers
\* String.prototype.slice(-n)
SliceLast(s, n) == IF Len(s) <= n THEN s ELSE SubSeq(s, Len(s) - n + 1, Len(s))

\* RegExp.exec(s) !== null for a regex that is the literal pat
Match(pat, s) ==
    \E i \in 1..(Len(s) - Len(pat) + 1) : SubSeq(s, i, i + Len(pat) - 1) = pat

\* String.prototype.split('\n')
RECURSIVE SplitNL(_)
SplitNL(s) ==
    IF \A i \in 1..Len(s) : s[i] # NL
    THEN <<s>>
    ELSE LET i == CHOOSE k \in 1..Len(s) : s[k] = NL /\ \A j \in 1..(k - 1) : s[j] # NL
         IN  <<SubSeq(s, 1, i - 1)>> \o SplitNL(SubSeq(s, i + 1, Len(s)))

\* Array.prototype.join('\n')
RECURSIVE JoinNL(_)
JoinNL(parts) ==
    IF Len(parts) = 0 THEN <<>>
    ELSE IF Len(parts) = 1 THEN parts[1]
    ELSE parts[1] \o <<NL>> \o JoinNL(Tail(parts))

AllButLast(q) == SubSeq(q, 1, Len(q) - 1)
LastOf(q) == q[Len(q)]
LastN(q, n) == IF Len(q) <= n THEN q ELSE SubSeq(q, Len(q) - n + 1, Len(q))

\* ------------------------------------------------------------------ History
\* new History(limit)
History_new(limit) == [lines |-> <<>>, currentLine |-> <<>>, limit |-> limit]

\* (mutant of History_pushLimit: the limit test is off by one line)
RECURSIVE History_pushLimit_late(_, _, _)
History_pushLimit_late(lines, parts, limit) ==
    IF parts = <<>> THEN lines
    ELSE LET pushed == Append(lines, Head(parts))
             kept == IF Len(pushed) > limit + 1 THEN Tail(pushed) ELSE pushed
         IN  History_pushLimit_late(kept, Tail(parts), limit)

\* the loop of append: push each complete line, shift when over the limit
RECURSIVE History_pushLimit(_, _, _)
History_pushLimit(lines, parts, limit) ==
    IF parts = <<>> THEN lines
    ELSE LET pushed == Append(lines, Head(parts))
             kept == IF Len(pushed) > limit THEN Tail(pushed) ELSE pushed
         IN  History_pushLimit(kept, Tail(parts), limit)

\* (mutant of History_append: the partial line is not joined with the new data)
History_append_dropPartial(h, data) ==
    LET parts == SplitNL(data)
    IN  [h EXCEPT !.lines = History_pushLimit(h.lines, AllButLast(parts), h.limit),
                  !.currentLine = LastOf(parts)]

\* History.append(data)
History_append(h, data) ==
    LET parts == SplitNL(h.currentLine \o data)
    IN  [h EXCEPT !.lines = History_pushLimit(h.lines, AllButLast(parts), h.limit),
                  !.currentLine = LastOf(parts)]

\* (mutant of History_getAll: currentLine is pushed even when it is empty)
History_getAll_keepEmpty(h) == JoinNL(Append(h.lines, h.currentLine))

\* History.getAll()
History_getAll(h) ==
    JoinNL(IF h.currentLine # <<>> THEN Append(h.lines, h.currentLine) ELSE h.lines)

\* Array.prototype.slice(start) for an integer start
ArraySlice(arr, start) ==
    LET from == IF start < 0
                THEN (IF Len(arr) + start > 0 THEN Len(arr) + start ELSE 0)
                ELSE (IF start < Len(arr) THEN start ELSE Len(arr))
    IN  SubSeq(arr, from + 1, Len(arr))

\* History.tail(n)
History_tail(h, n) ==
    JoinNL(ArraySlice(IF h.currentLine # <<>> THEN Append(h.lines, h.currentLine)
                      ELSE h.lines, 0 - n))

\* a regular expression that is the literal source
NoRegex == [source |-> <<>>, global |-> FALSE, lastIndex |-> 0]
NoQuery == [op |-> "none", n |-> 0, re |-> NoRegex, result |-> <<>>]
NoSearch == [running |-> FALSE, regex |-> NoRegex, i |-> 0, inWhile |-> FALSE,
             matches |-> <<>>, returned |-> FALSE]

\* the index (from 0) of the first occurrence of pat in s at or after from, or -1
IndexFrom(pat, s, from) ==
    LET occ == { i \in from..(Len(s) - Len(pat)) : SubSeq(s, i + 1, i + Len(pat)) = pat }
    IN  IF occ = {} THEN -1 ELSE CHOOSE i \in occ : \A j \in occ : i <= j

\* RegExp.prototype.exec(s): a global regex starts at lastIndex and moves it past the
\* match, or back to 0 when there is none; any other regex starts at 0
RegExp_exec(re, s) ==
    LET index == IF re.global THEN IndexFrom(re.source, s, re.lastIndex)
                 ELSE IndexFrom(re.source, s, 0)
    IN  [index |-> index,
         re |-> IF ~re.global THEN re
                ELSE [re EXCEPT !.lastIndex = IF index = -1 THEN 0
                                              ELSE index + Len(re.source)]]

\* (mutant of SearchReset: lastIndex is left as the previous line left it)
SearchReset_none(re) == re

\* History.search: "Reset regex state for global patterns"
SearchReset(re) == IF re.global THEN [re EXCEPT !.lastIndex = 0] ELSE re

\* History.search: the while loop over one line (i counts from 1)
RECURSIVE SearchLine(_, _, _, _)
SearchLine(lines, i, re, acc) ==
    LET r == RegExp_exec(re, lines[i])
        found == [line |-> i - 1, column |-> r.index, text |-> re.source,
                  before |-> IF i > 1 THEN lines[i - 1] ELSE <<>>,
                  after |-> IF i < Len(lines) THEN lines[i + 1] ELSE <<>>]
    IN  IF r.index = -1 THEN [re |-> r.re, matches |-> acc]
        ELSE IF ~re.global THEN [re |-> r.re, matches |-> Append(acc, found)]
        ELSE SearchLine(lines, i, r.re, Append(acc, found))

\* History.search: the for loop over the complete lines
RECURSIVE SearchFrom(_, _, _, _)
SearchFrom(lines, i, re, acc) ==
    IF i > Len(lines) THEN acc
    ELSE LET r == SearchLine(lines, i, SearchReset(re), <<>>)
         IN  SearchFrom(lines, i + 1, r.re, acc \o r.matches)

\* History.search(pattern) for a RegExp
History_search(h, re) == SearchFrom(h.lines, 1, re, <<>>)

\* the regular expressions passed to search: a string pattern becomes a global one
Regexes ==
    { [source |-> src, global |-> g, lastIndex |-> li] :
        src \in {<<"1">>, <<"1", "1">>}, g \in BOOLEAN, li \in {0, 1} }

\* History.lineCount()
History_lineCount(h) == Len(h.lines) + (IF h.currentLine # <<>> THEN 1 ELSE 0)


\* ---------------------------------------------------------------- the state
VARIABLES
    now,          \* Date.now(), in ticks
    spawned,      \* the session has been constructed
    registered,   \* the session is in Umux.sessions
    alive,        \* SessionImpl._isAlive
    exitCode,     \* SessionImpl._exitCode (NoCode = null)
    child,        \* the PTY child: "none", "running", "killed" (signalled), "exited"
    fgBusy,       \* the probe finds a foreground process under the shell
    disposed,     \* dispose() has run
    history,      \* SessionImpl._history
    screen,       \* the text the terminal engine would capture
    chunks,       \* PTY chunks read so far
    handlers,     \* SessionImpl.eventHandlers: event -> subscribers in insertion order
    cur,          \* the emitEvent loop now running: event, payload, subscribers left
    pending,      \* emits the running callback still has to make
    waits,        \* the closures of the waitFor calls
    exitEmits,    \* emitEvent('exit') calls so far
    lateInvoke,   \* a session subscriber was invoked after dispose()
    lateLoop,     \* an emitEvent call made after dispose() found a subscriber
    lateRegEmit,  \* the registry emitted output or exit after dispose()
    lateRun,      \* a handler or timer of a wait ran after that wait resolved
    hist,         \* a History under test (HistorySpec)
    appended,     \* everything appended to hist, concatenated
    appends,      \* append calls made on hist
    query,        \* the latest tail or search call on hist since its last append
    srch,         \* the locals of a search call that runs one loop iteration a step
    hooks,        \* HookManager.hooks: the configs in insertion order (HookSpec)
    hookReg,      \* per hook id, the config of its latest add() ("none" before it)
    hookRuns,     \* per hook id, runCommand calls since its latest add()
    hookSeen,     \* per hook id, fire() calls since its latest add() that trigger it
    fires,        \* fire() calls so far
    regOrder,     \* Umux.sessions: the ids in insertion order (RegistrySpec)
    sess,         \* per id, the session: state "none", "live", "dead"; busy; disposed
    readyState,   \* Umux.readyState: per id "unknown" (no entry), "busy", "idle"
    lastObs,      \* per id, what the poller last observed of the live session
    readyEmits,   \* per id, ready events emitted
    transitions,  \* per id, busy-to-idle changes between consecutive observations
    destroyEmits, \* per id, session:destroy events emitted
    destroySeen,  \* per id, what a session:destroy subscriber found
    lastCall,     \* the latest registry call by session id and its outcome
    calls,        \* such calls so far
    polls,        \* poller ticks so far
    keyIn,        \* the KeyInput handed to encodeKey (KeySpec)
    keyOut,       \* what encodeKey returned or threw
    inAlive,      \* SessionImpl._isAlive of the session written to (InputSpec)
    logInput,     \* SessionImpl.logInput
    logStream,    \* SessionImpl.jsonlLogStream is open
    inputHistory, \* SessionImpl._inputHistory
    ptyWritten,   \* everything written to the PTY
    lastSend,     \* the latest send, sendKey or sendKeys call and what it did
    sends,        \* such calls so far
    okSent,       \* the keys (and texts, as string keys) of the calls that returned
    emSubs,       \* EventEmitter.handlers: per event the Set, in insertion order (EmitSpec)
    emAt,         \* per event and handler, when its present subscription was made (0: none)
    emClock,      \* on, off and emit calls so far
    emThrows,     \* the handlers that throw when invoked
    emLast,       \* the latest emit since the last on or off: what it invoked and did
    queryScanTail, \* SessionImpl.queryScanTail (OutputSpec)
    ptyIn,        \* the bytes the session wrote to the PTY
    replyLog,     \* the notes of the replies written, in order
    outHistory,   \* SessionImpl._history
    engine,       \* the ResilientEngine: impl, replay, and what impl was fed and has queued
    outEvents,    \* the screen and output events emitted, in order
    stream,       \* the chunks ptyProcess.onData delivered, in order
    lastSwap      \* the latest swapToFallback: the chunk and what the fallback was given

sessionVars == <<now, spawned, registered, alive, exitCode, child, fgBusy, disposed,
                 history, screen, chunks, handlers, cur, pending, waits, exitEmits,
                 lateInvoke, lateLoop, lateRegEmit, lateRun>>

historyVars == <<hist, appended, appends, query, srch>>

hookVars == <<hooks, hookReg, hookRuns, hookSeen, fires>>

registryVars == <<regOrder, sess, readyState, lastObs, readyEmits, transitions,
                  destroyEmits, destroySeen, lastCall, calls, polls>>

keyVars == <<keyIn, keyOut>>

inputVars ==
    <<inAlive, logInput, logStream, inputHistory, ptyWritten, lastSend, sends, okSent>>

outputVars ==
    <<queryScanTail, ptyIn, replyLog, outHistory, engine, outEvents, stream, lastSwap>>

emitVars == <<emSubs, emAt, emClock, emThrows, emLast>>

\* what emitVars leaves alone
exceptEmit == <<sessionVars, historyVars, hookVars, registryVars, keyVars, inputVars, outputVars>>

\* what outputVars leaves alone
exceptOutput == <<sessionVars, historyVars, hookVars, registryVars, keyVars, inputVars, emitVars>>

vars == <<sessionVars, historyVars, hookVars, registryVars, keyVars, inputVars, emitVars, outputVars>>

\* what the callbacks and calls of a session leave alone
componentVars == <<historyVars, hookVars, registryVars, keyVars, inputVars, emitVars, outputVars>>

\* what a call on the History under test leaves alone
exceptHistory == <<sessionVars, hookVars, registryVars, keyVars, inputVars, emitVars, outputVars>>

\* what a call on the hook manager leaves alone
exceptHooks == <<sessionVars, historyVars, registryVars, keyVars, inputVars, emitVars, outputVars>>

\* what the registry leaves alone
exceptRegistry == <<sessionVars, historyVars, hookVars, keyVars, inputVars, emitVars, outputVars>>

\* what a write to a session leaves alone
exceptInput == <<sessionVars, historyVars, hookVars, registryVars, keyVars, emitVars, outputVars>>

\* what the key codec leaves alone
exceptKeys == <<sessionVars, historyVars, hookVars, registryVars, inputVars, emitVars, outputVars>>

EventNames == {"output", "exit", "screen"}
WaitIds == 1..PairWaits
ExitCodes == {0, 1}

\* what the child may write in one chunk
Chunks == { <<"o">>, <<"k">>, <<"e", "o", "k">>, <<"e", NL>> }

\* the literals the modelled regular expressions search for
PatternLit == <<"o", "k">>     \* condition.pattern
NotLit == <<"e">>              \* condition.not
ScreenLit == <<"k">>           \* condition.screenPattern

\* a WaitCondition; bad names the field whose string is not a valid regex
Cond(p, n, s, i, e, r, t, b) ==
    [pattern |-> p, not |-> n, screenPattern |-> s, idle |-> i, exit |-> e,
     ready |-> r, timeout |-> t, bad |-> b]

\* the conditions the modelled calls pass
Conds ==
    { Cond(FALSE, FALSE, FALSE, 0, FALSE, FALSE, WaitTimeout, "none"),
      Cond(TRUE, TRUE, FALSE, 0, FALSE, FALSE, WaitTimeout, "none"),
      Cond(TRUE, FALSE, FALSE, 0, FALSE, FALSE, 0, "none"),
      Cond(FALSE, FALSE, FALSE, IdleWindow, FALSE, FALSE, WaitTimeout, "none"),
      Cond(FALSE, FALSE, FALSE, 0, TRUE, FALSE, WaitTimeout, "none"),
      Cond(FALSE, FALSE, FALSE, 0, FALSE, TRUE, WaitTimeout, "none"),
      Cond(FALSE, TRUE, TRUE, 0, FALSE, FALSE, WaitTimeout, "none"),
      Cond(TRUE, TRUE, TRUE, IdleWindow, TRUE, TRUE, WaitTimeout, "none"),
      Cond(FALSE, FALSE, FALSE, 0, TRUE, TRUE, 0, "none"),
      Cond(TRUE, FALSE, FALSE, 0, FALSE, FALSE, WaitTimeout, "pattern") }

NoResult == [reason |-> "none", exitCode |-> NoCode, output |-> <<>>, waitedMs |-> 0]

\* what held when waitFor was called (recorded for the claims, read by no handler)
NoAtCall == [pattern |-> FALSE, not |-> FALSE, screen |-> FALSE, noFg |-> FALSE,
             dead |-> FALSE, exitCode |-> NoCode]

NoWait ==
    [used |-> FALSE, cond |-> Cond(FALSE, FALSE, FALSE, 0, FALSE, FALSE, 0, "none"),
     startTime |-> 0, outputBuffer |-> <<>>, screenBuffer |-> <<>>, scanTail |-> <<>>,
     idleTimer |-> NoTimer, timeoutTimer |-> NoTimer, readyPollTimer |-> NoTimer,
     resolved |-> FALSE, promise |-> "none", result |-> NoResult, resolveCalls |-> 0,
     atCall |-> NoAtCall, lastOutputAt |-> 0, received |-> <<>>]

WaitHandler(w) == [kind |-> "wait", w |-> w]
FwdHandler == [kind |-> "fwd", w |-> 0]

NoFrame == [ev |-> "none", data |-> <<>>, code |-> NoCode, todo |-> <<>>]
Emit(ev, data, code) == [ev |-> ev, data |-> data, code |-> code]

NoHandlers == [ev \in EventNames |-> <<>>]

\* SessionImpl.foregroundProcess !== null
foregroundProcess == alive /\ fgBusy


\* ------------------------------------------------------------ wait resolver
\* The operators below take and return st = [waits, handlers], the part of the
\* state a waitFor closure can change.

\* SessionImpl.off(event, handler) for the three handlers of wait w
offAll(hs, w) ==
    [ev \in EventNames |-> SelectSeq(hs[ev], LAMBDA h : h # WaitHandler(w))]

\* SessionImpl.on(event, handler) for the three handlers of wait w (Set.add)
onAll(hs, w) ==
    [ev \in EventNames |->
        IF \E i \in 1..Len(hs[ev]) : hs[ev][i] = WaitHandler(w)
        THEN hs[ev] ELSE Append(hs[ev], WaitHandler(w))]

\* (mutant of cleanup: the exit subscription is left behind)
cleanup_keepExit(st, w) ==
    [waits |-> [st.waits EXCEPT ![w].idleTimer = NoTimer,
                                ![w].timeoutTimer = NoTimer,
                                ![w].readyPollTimer = NoTimer],
     handlers |-> [ev \in EventNames |->
                     IF ev = "exit" THEN st.handlers[ev]
                     ELSE SelectSeq(st.handlers[ev], LAMBDA h : h # WaitHandler(w))]]

\* waitFor.cleanup
cleanup(st, w) ==
    [waits |-> [st.waits EXCEPT ![w].idleTimer = NoTimer,
                                ![w].timeoutTimer = NoTimer,
                                ![w].readyPollTimer = NoTimer],
     handlers |-> offAll(st.handlers, w)]

\* resolve(result) of the promise: only the first settlement takes effect
resolve(st, w, result) ==
    [st EXCEPT !.waits[w].resolveCalls = @ + 1,
               !.waits[w].promise = IF @ = "pending" THEN "fulfilled" ELSE @,
               !.waits[w].result = IF st.waits[w].promise = "pending" THEN result ELSE @]

\* an exception thrown in the promise executor rejects the promise
reject(st, w) ==
    [st EXCEPT !.waits[w].promise = IF @ = "pending" THEN "rejected" ELSE @]

WaitResult(st, w, reason, code, output) ==
    [reason |-> reason, exitCode |-> code, output |-> output,
     waitedMs |-> now - st.waits[w].startTime]

\* (mutant of finish: no resolved guard and no cleanup, resolve is called directly)
finish_direct(st, w, reason, code, output) ==
    resolve([st EXCEPT !.waits[w].resolved = TRUE], w,
            WaitResult(st, w, reason, code, output))

\* waitFor.finish
finish(st, w, reason, code, output) ==
    IF st.waits[w].resolved THEN st
    ELSE resolve(cleanup([st EXCEPT !.waits[w].resolved = TRUE], w), w,
                 WaitResult(st, w, reason, code, output))

\* (mutant of resetIdleTimer: an armed idle timer is left as it is)
resetIdleTimer_keepArmed(st, w) ==
    IF st.waits[w].idleTimer # NoTimer THEN st
    ELSE [st EXCEPT !.waits[w].idleTimer =
            IF st.waits[w].cond.idle > 0 THEN now + st.waits[w].cond.idle ELSE NoTimer]

\* waitFor.resetIdleTimer
resetIdleTimer(st, w) ==
    [st EXCEPT !.waits[w].idleTimer =
        IF st.waits[w].cond.idle > 0 THEN now + st.waits[w].cond.idle ELSE NoTimer]

\* (mutant of onOutput: pattern is tested before not)
onOutput_patternFirst(st, w, data) ==
    LET c == st.waits[w].cond
        buf == st.waits[w].outputBuffer \o data
        scan == SliceLast(st.waits[w].scanTail \o data, ScanTailLimit)
        s1 == [st EXCEPT !.waits[w].outputBuffer = buf, !.waits[w].scanTail = scan]
    IN  IF c.pattern /\ c.bad = "pattern" THEN s1
        ELSE IF c.pattern /\ Match(PatternLit, scan)
        THEN finish(s1, w, "pattern", NoCode, buf)
        ELSE IF c.not /\ c.bad = "not" THEN s1
        ELSE IF c.not /\ Match(NotLit, scan)
        THEN finish(s1, w, "rejected", NoCode, buf)
        ELSE resetIdleTimer(s1, w)

\* (mutant of onOutput: the regexes are run on the chunk alone, without the tail)
onOutput_chunkOnly(st, w, data) ==
    LET c == st.waits[w].cond
        buf == st.waits[w].outputBuffer \o data
        scan == SliceLast(st.waits[w].scanTail \o data, ScanTailLimit)
        s1 == [st EXCEPT !.waits[w].outputBuffer = buf, !.waits[w].scanTail = scan]
    IN  IF c.not /\ c.bad = "not" THEN s1
        ELSE IF c.not /\ Match(NotLit, data)
        THEN finish(s1, w, "rejected", NoCode, buf)
        ELSE IF c.pattern /\ c.bad = "pattern" THEN s1
        ELSE IF c.pattern /\ Match(PatternLit, data)
        THEN finish(s1, w, "pattern", NoCode, buf)
        ELSE resetIdleTimer(s1, w)

\* waitFor.onOutput; a regex that does not compile throws, and emitEvent catches it
onOutput(st, w, data) ==
    LET c == st.waits[w].cond
        buf == st.waits[w].outputBuffer \o data
        scan == SliceLast(st.waits[w].scanTail \o data, ScanTailLimit)
        s1 == [st EXCEPT !.waits[w].outputBuffer = buf, !.waits[w].scanTail = scan]
    IN  IF c.not /\ c.bad = "not" THEN s1
        ELSE IF c.not /\ Match(NotLit, scan)
        THEN finish(s1, w, "rejected", NoCode, buf)
        ELSE IF c.pattern /\ c.bad = "pattern" THEN s1
        ELSE IF c.pattern /\ Match(PatternLit, scan)
        THEN finish(s1, w, "pattern", NoCode, buf)
        ELSE resetIdleTimer(s1, w)

\* (mutant of onExit: ready is tested before exit)
onExit_readyFirst(st, w, code) ==
    LET c == st.waits[w].cond
    IN  IF c.ready THEN finish(st, w, "ready", NoCode, st.waits[w].outputBuffer)
        ELSE IF c.exit THEN finish(st, w, "exit", code, st.waits[w].outputBuffer)
        ELSE st

\* waitFor.onExit
onExit(st, w, code) ==
    LET c == st.waits[w].cond
    IN  IF c.exit THEN finish(st, w, "exit", code, st.waits[w].outputBuffer)
        ELSE IF c.ready THEN finish(st, w, "ready", NoCode, st.waits[w].outputBuffer)
        ELSE st

\* waitFor.onScreen
onScreen(st, w) ==
    LET c == st.waits[w].cond
        s1 == [st EXCEPT !.waits[w].screenBuffer = screen]
    IN  IF ~c.screenPattern THEN st
        ELSE IF c.bad = "screen" THEN st
        ELSE IF Match(ScreenLit, screen) THEN finish(s1, w, "screen", NoCode, screen)
        ELSE s1


\* the promise executor has returned or thrown: no later statement of it runs
Returned(st, w) == st.waits[w].resolved \/ st.waits[w].promise = "rejected"

\* (mutant of armTimeout: the idle window is passed as the delay)
armTimeout_idleDelay(st, w) ==
    [st EXCEPT !.waits[w].timeoutTimer =
        IF st.waits[w].cond.timeout > 0 THEN now + st.waits[w].cond.idle ELSE NoTimer]

\* waitFor: "Set up timeout"
armTimeout(st, w) ==
    [st EXCEPT !.waits[w].timeoutTimer =
        IF st.waits[w].cond.timeout > 0 THEN now + st.waits[w].cond.timeout ELSE NoTimer]

\* waitFor: the closure's variables, the timeout, the subscriptions, the idle timer
waitFor_setup(st, w, c) ==
    LET s0 == [st EXCEPT !.waits[w] =
                  [NoWait EXCEPT !.used = TRUE, !.cond = c, !.startTime = now,
                                 !.promise = "pending"]]
        s1 == armTimeout(s0, w)
        s2 == [s1 EXCEPT !.handlers = onAll(s1.handlers, w)]
    IN  resetIdleTimer(s2, w)

\* waitFor: "Check existing history for pattern match"
preCheckPattern(st, w) ==
    LET c == st.waits[w].cond
        existingOutput == History_getAll(history)
        s1 == [st EXCEPT !.waits[w].outputBuffer = existingOutput]
    IN  IF Returned(st, w) \/ ~c.pattern THEN st
        ELSE IF c.bad = "pattern" THEN reject(s1, w)
        ELSE IF Match(PatternLit, existingOutput)
        THEN finish(s1, w, "pattern", NoCode, existingOutput)
        ELSE s1

\* waitFor: "Check not pattern in existing history"
preCheckNot(st, w) ==
    LET c == st.waits[w].cond
        existingOutput == History_getAll(history)
        s1 == [st EXCEPT !.waits[w].outputBuffer = existingOutput]
    IN  IF Returned(st, w) \/ ~c.not THEN st
        ELSE IF c.bad = "not" THEN reject(s1, w)
        ELSE IF Match(NotLit, existingOutput)
        THEN finish(s1, w, "rejected", NoCode, existingOutput)
        ELSE s1

\* waitFor: "Check existing screen for screen match"
preCheckScreen(st, w) ==
    LET c == st.waits[w].cond
        s1 == [st EXCEPT !.waits[w].screenBuffer = screen]
    IN  IF Returned(st, w) \/ ~c.screenPattern THEN st
        ELSE IF c.bad = "screen" THEN reject(st, w)
        ELSE IF Match(ScreenLit, screen) THEN finish(s1, w, "screen", NoCode, screen)
        ELSE s1

\* waitFor: "Set up ready polling", with its immediate check
preCheckReady(st, w) ==
    LET c == st.waits[w].cond
    IN  IF Returned(st, w) \/ ~c.ready THEN st
        ELSE IF ~foregroundProcess
        THEN finish(st, w, "ready", NoCode, st.waits[w].outputBuffer)
        ELSE [st EXCEPT !.waits[w].readyPollTimer = now + ReadyPollTicks]

\* waitFor: "Check if already exited"
preCheckExit(st, w) ==
    LET c == st.waits[w].cond
    IN  IF Returned(st, w) THEN st
        ELSE IF ~alive /\ c.exit
        THEN finish(st, w, "exit", IF exitCode = NoCode THEN 0 ELSE exitCode,
                    History_getAll(history))
        ELSE st

\* (mutant of waitForBody: the exit check is made before the ready check)
waitForBody_exitFirst(st, w, c) ==
    preCheckReady(
      preCheckExit(
        preCheckScreen(
          preCheckNot(
            preCheckPattern(waitFor_setup(st, w, c), w), w), w), w), w)

\* the promise executor of waitFor, in the order of its statements
waitForBody(st, w, c) ==
    preCheckExit(
      preCheckReady(
        preCheckScreen(
          preCheckNot(
            preCheckPattern(waitFor_setup(st, w, c), w), w), w), w), w)

\* what holds of the session when waitFor is called
AtCall ==
    [pattern |-> Match(PatternLit, History_getAll(history)),
     not |-> Match(NotLit, History_getAll(history)),
     screen |-> Match(ScreenLit, screen),
     noFg |-> ~foregroundProcess,
     dead |-> ~alive,
     exitCode |-> exitCode]


\* ------------------------------------------------------------ event fan-out
\* emitEvent looks the subscriber set up when it is called: the first of the
\* emits still to make that has subscribers becomes the running loop.
RECURSIVE StartNext(_, _)
StartNext(emits, hs) ==
    IF emits = <<>> THEN [cur |-> NoFrame, pending |-> <<>>]
    ELSE IF hs[Head(emits).ev] # <<>>
    THEN [cur |-> [ev |-> Head(emits).ev, data |-> Head(emits).data,
                   code |-> Head(emits).code, todo |-> hs[Head(emits).ev]],
          pending |-> Tail(emits)]
    ELSE StartNext(Tail(emits), hs)

\* a PTY, timer or API callback starts only when no callback is running
Idle == cur.ev = "none"

\* the callback makes these emits, in this order
Begin(emits, hs) ==
    LET nxt == StartNext(emits, hs)
    IN  /\ cur' = nxt.cur /\ pending' = nxt.pending
        /\ lateLoop' = (lateLoop \/ (disposed /\ nxt.cur.ev # "none"))

\* (mutant of Continue: the subscribers are walked by index, so that the one after
\* a subscriber that removed itself is skipped)
Continue_byIndex(hs, isDisposed) ==
    LET stays == \E i \in 1..Len(hs[cur.ev]) : hs[cur.ev][i] = Head(cur.todo)
        after == IF stays \/ Tail(cur.todo) = <<>> THEN Tail(cur.todo)
                 ELSE Tail(Tail(cur.todo))
        rest == IF isDisposed THEN after
                ELSE SelectSeq(after,
                               LAMBDA h : \E i \in 1..Len(hs[cur.ev]) : hs[cur.ev][i] = h)
        nxt == IF rest # <<>>
               THEN [cur |-> [cur EXCEPT !.todo = rest], pending |-> pending]
               ELSE StartNext(pending, hs)
    IN  /\ cur' = nxt.cur /\ pending' = nxt.pending
        /\ lateLoop' = (lateLoop \/ (isDisposed /\ rest = <<>> /\ nxt.cur.ev # "none"))

\* the for-of loop of emitEvent after one subscriber returned: the Set is iterated
\* live (a deleted subscriber is skipped) unless dispose() cleared the Map, which
\* leaves the Set under iteration untouched
Continue(hs, isDisposed) ==
    LET rest == IF isDisposed THEN Tail(cur.todo)
                ELSE SelectSeq(Tail(cur.todo),
                               LAMBDA h : \E i \in 1..Len(hs[cur.ev]) : hs[cur.ev][i] = h)
        nxt == IF rest # <<>>
               THEN [cur |-> [cur EXCEPT !.todo = rest], pending |-> pending]
               ELSE StartNext(pending, hs)
    IN  /\ cur' = nxt.cur /\ pending' = nxt.pending
        /\ lateLoop' = (lateLoop \/ (isDisposed /\ rest = <<>> /\ nxt.cur.ev # "none"))

\* ------------------------------------------------------------------ actions
\* Umux.spawn: construct the session, register it, forward output and exit
Spawn ==
    /\ Idle /\ ~spawned
    /\ spawned' = TRUE /\ registered' = TRUE
    /\ alive' = TRUE /\ exitCode' = NoCode /\ child' = "running"
    /\ fgBusy' = FALSE
    /\ history' = History_new(HistoryLimit)
    /\ screen' = <<>>
    /\ handlers' = [ev \in EventNames |->
                      IF ev \in {"output", "exit"} THEN <<FwdHandler>> ELSE <<>>]
    /\ UNCHANGED <<now, disposed, chunks, cur, pending, waits, exitEmits, lateInvoke, lateLoop,
                   lateRegEmit, lateRun>>
    /\ UNCHANGED componentVars

\* the foreground process under the shell starts or ends
FgChange ==
    /\ Idle /\ alive /\ child \in {"running", "killed"}
    /\ fgBusy' = ~fgBusy
    /\ UNCHANGED <<now, spawned, registered, alive, exitCode, child, disposed, history,
                   screen, chunks, handlers, cur, pending, waits, exitEmits, lateInvoke, lateLoop,
                   lateRegEmit, lateRun>>
    /\ UNCHANGED componentVars

\* ptyProcess.onData: history, engine, then the screen and the output event
PtyData(data) ==
    /\ Idle /\ child \in {"running", "killed"} /\ chunks < MaxChunks
    /\ chunks' = chunks + 1
    /\ history' = History_append(history, data)
    /\ screen' = screen \o data
    /\ Begin(<<Emit("screen", <<>>, NoCode), Emit("output", data, NoCode)>>, handlers)
    /\ UNCHANGED <<now, spawned, registered, alive, exitCode, child, fgBusy, disposed,
                   handlers, waits, exitEmits, lateInvoke, lateRegEmit, lateRun>>
    /\ UNCHANGED componentVars

\* (mutant of ChildExit: _isAlive is not cleared before the event is emitted)
ChildExit_stillAlive(code) ==
    /\ Idle /\ child \in {"running", "killed"}
    /\ child' = "exited"
    /\ exitCode' = code
    /\ exitEmits' = exitEmits + 1
    /\ Begin(<<Emit("exit", <<>>, code)>>, handlers)
    /\ UNCHANGED <<now, spawned, registered, alive, fgBusy, disposed, history, screen,
                   chunks, handlers, waits, lateInvoke, lateRegEmit, lateRun>>
    /\ UNCHANGED componentVars

\* ptyProcess.onExit: the child exited with this code
ChildExit(code) ==
    /\ Idle /\ child \in {"running", "killed"}
    /\ child' = "exited"
    /\ alive' = FALSE
    /\ exitCode' = code
    /\ exitEmits' = exitEmits + 1
    /\ Begin(<<Emit("exit", <<>>, code)>>, handlers)
    /\ UNCHANGED <<now, spawned, registered, fgBusy, disposed, history, screen, chunks,
                   handlers, waits, lateInvoke, lateRegEmit, lateRun>>
    /\ UNCHANGED componentVars

\* emitEvent invokes the next subscriber, a handler of wait w
DeliverWait(w) ==
    /\ ~Idle /\ Head(cur.todo) = WaitHandler(w)
    /\ LET st == [waits |-> waits, handlers |-> handlers]
           r == CASE cur.ev = "output" -> onOutput(st, w, cur.data)
                  [] cur.ev = "exit" -> onExit(st, w, cur.code)
                  [] OTHER -> onScreen(st, w)
       IN  /\ waits' = IF cur.ev = "output"
                       THEN [r.waits EXCEPT ![w].lastOutputAt = now,
                                            ![w].received = @ \o cur.data]
                       ELSE r.waits
           /\ handlers' = r.handlers
           /\ Continue(r.handlers, disposed)
    /\ lateInvoke' = (lateInvoke \/ disposed)
    /\ lateRun' = [lateRun EXCEPT ![w] = @ \/ waits[w].resolved]
    /\ UNCHANGED <<now, spawned, registered, alive, exitCode, child, fgBusy, disposed,
                   history, screen, chunks, exitEmits, lateRegEmit>>
    /\ UNCHANGED componentVars

\* (mutant of DisposeEffects: eventHandlers.clear() is left out)
DisposeEffects_keepHandlers ==
    /\ child' = IF alive /\ child = "running" THEN "killed" ELSE child
    /\ disposed' = TRUE
    /\ handlers' = handlers

\* SessionImpl.dispose: kill if alive, dispose the engine, clear the subscribers
DisposeEffects ==
    /\ child' = IF alive /\ child = "running" THEN "killed" ELSE child
    /\ disposed' = TRUE
    /\ handlers' = NoHandlers

\* emitEvent invokes the forwarder Umux.spawn subscribed: the registry emits the
\* event to its own subscribers, one of which may call destroySession
DeliverFwd(destroys) ==
    /\ ~Idle /\ Head(cur.todo) = FwdHandler
    /\ lateRegEmit' = (lateRegEmit \/ disposed)
    /\ lateInvoke' = (lateInvoke \/ disposed)
    /\ IF destroys
       THEN /\ registered
            /\ DisposeEffects
            /\ registered' = FALSE
            /\ Continue(handlers', TRUE)
       ELSE /\ UNCHANGED <<child, disposed, handlers, registered>>
            /\ Continue(handlers, disposed)
    /\ UNCHANGED <<now, spawned, alive, exitCode, fgBusy, history, screen, chunks,
                   waits, exitEmits, lateRun>>
    /\ UNCHANGED componentVars


\* Umux.waitFor(sessionId, c) on the registered session; w names the call
WaitFor(w, c) ==
    /\ Idle /\ registered /\ ~disposed
    /\ ~waits[w].used /\ \A v \in WaitIds : v < w => waits[v].used
    /\ now + c.timeout <= MaxTime /\ now + c.idle <= MaxTime
    /\ LET r == waitForBody([waits |-> waits, handlers |-> handlers], w, c)
       IN  /\ waits' = [r.waits EXCEPT ![w].atCall = AtCall, ![w].lastOutputAt = now]
           /\ handlers' = r.handlers
    /\ UNCHANGED <<now, spawned, registered, alive, exitCode, child, fgBusy, disposed,
                   history, screen, chunks, cur, pending, exitEmits, lateInvoke, lateLoop,
                   lateRegEmit, lateRun>>
    /\ UNCHANGED componentVars

\* a timer of the event loop is due
Due(t) == t # NoTimer /\ t <= now

\* what a timer callback of wait w leaves behind
TimerRan(w, r) ==
    /\ waits' = r.waits
    /\ handlers' = r.handlers
    /\ lateRun' = [lateRun EXCEPT ![w] = @ \/ waits[w].resolved]
    /\ UNCHANGED <<now, spawned, registered, alive, exitCode, child, fgBusy, disposed,
                   history, screen, chunks, cur, pending, exitEmits, lateInvoke, lateLoop,
                   lateRegEmit>>
    /\ UNCHANGED componentVars

\* the idle timer of wait w fires
IdleFire(w) ==
    /\ Idle /\ Due(waits[w].idleTimer)
    /\ TimerRan(w, finish([waits |-> [waits EXCEPT ![w].idleTimer = NoTimer],
                           handlers |-> handlers],
                          w, "idle", NoCode, waits[w].outputBuffer))

\* the timeout timer of wait w fires
TimeoutFire(w) ==
    /\ Idle /\ Due(waits[w].timeoutTimer)
    /\ TimerRan(w, finish([waits |-> [waits EXCEPT ![w].timeoutTimer = NoTimer],
                           handlers |-> handlers],
                          w, "timeout", NoCode, waits[w].outputBuffer))

\* the ready poll of wait w ticks (setInterval: it stays armed)
ReadyPoll(w) ==
    /\ Idle /\ Due(waits[w].readyPollTimer)
    /\ LET st == [waits |-> [waits EXCEPT ![w].readyPollTimer = now + ReadyPollTicks],
                  handlers |-> handlers]
       IN  TimerRan(w, IF ~alive \/ ~foregroundProcess
                       THEN finish(st, w, "ready", NoCode, waits[w].outputBuffer)
                       ELSE st)

\* time passes; a due timer fires before the clock moves on.  The clock is read
\* only by a wait (its timers, its waitedMs), so it is advanced only while one
\* is unresolved
Tick ==
    /\ Idle /\ now < MaxTime
    /\ \E w \in WaitIds : waits[w].used /\ ~waits[w].resolved
    /\ \A w \in WaitIds : /\ ~Due(waits[w].idleTimer)
                          /\ ~Due(waits[w].timeoutTimer)
                          /\ ~Due(waits[w].readyPollTimer)
    /\ now' = now + 1
    /\ UNCHANGED <<spawned, registered, alive, exitCode, child, fgBusy, disposed,
                   history, screen, chunks, handlers, cur, pending, waits, exitEmits,
                   lateInvoke, lateLoop, lateRegEmit, lateRun>>
    /\ UNCHANGED componentVars

\* Umux.kill -> SessionImpl.kill: the signal is sent if the session is alive
Kill ==
    /\ Idle /\ registered /\ alive /\ child = "running"
    /\ child' = "killed"
    /\ UNCHANGED <<now, spawned, registered, alive, exitCode, fgBusy, disposed, history,
                   screen, chunks, handlers, cur, pending, waits, exitEmits, lateInvoke, lateLoop,
                   lateRegEmit, lateRun>>
    /\ UNCHANGED componentVars

\* Umux.destroySession(id)
DestroySession ==
    /\ Idle /\ registered
    /\ DisposeEffects
    /\ registered' = FALSE
    /\ UNCHANGED <<now, spawned, alive, exitCode, fgBusy, history, screen, chunks, cur,
                   pending, waits, exitEmits, lateInvoke, lateLoop, lateRegEmit, lateRun>>
    /\ UNCHANGED componentVars

\* session.dispose() called on the session object; it stays in the registry
SessionDispose ==
    /\ Idle /\ spawned /\ ~disposed
    /\ DisposeEffects
    /\ UNCHANGED <<now, spawned, registered, alive, exitCode, fgBusy, history, screen,
                   chunks, cur, pending, waits, exitEmits, lateInvoke, lateLoop, lateRegEmit,
                   lateRun>>
    /\ UNCHANGED componentVars

\* ------------------------------------------------------- History under test
\* the data of one append call
HistChunks ==
    { <<"1">>, <<NL>>, <<"1", NL>>, <<"2", NL, "3">>, <<NL, NL>>, <<"1", "1", "1", NL>>,
      <<"1", NL, "2", NL, "3", NL, "4", NL, "5", NL>> }

\* hist.append(data)
HistAppend(data) ==
    /\ appends < MaxAppends
    /\ hist' = History_append(hist, data)
    /\ appended' = appended \o data
    /\ appends' = appends + 1
    /\ query' = NoQuery
    /\ UNCHANGED srch
    /\ UNCHANGED exceptHistory

\* hist.tail(n)
HistTail(n) ==
    /\ query' = [op |-> "tail", n |-> n, re |-> NoRegex, result |-> History_tail(hist, n)]
    /\ UNCHANGED <<hist, appended, appends, srch>>
    /\ UNCHANGED exceptHistory

\* hist.search(re)
HistSearch(re) ==
    /\ query' = [op |-> "search", n |-> 0, re |-> re, result |-> History_search(hist, re)]
    /\ UNCHANGED <<hist, appended, appends, srch>>
    /\ UNCHANGED exceptHistory

\* History.search run one loop iteration a step. srch holds its locals: the regex
\* (with its lastIndex), the for index i (from 1), whether the while loop of line i
\* is running, and the matches pushed so far.
SearchRegexes ==
    { [source |-> src, global |-> g, lastIndex |-> 0] :
        src \in {<<>>, <<"1">>}, g \in BOOLEAN }

\* hist.search(pattern) is called: regex and matches are set up, the for loop starts
SearchBegin(re) ==
    /\ ~srch.running
    /\ srch' = [running |-> TRUE, regex |-> re, i |-> 1, inWhile |-> FALSE,
                matches |-> <<>>, returned |-> FALSE]
    /\ UNCHANGED <<hist, appended, appends, query>>
    /\ UNCHANGED exceptHistory

\* the head of the for loop: past the last line search returns the matches;
\* otherwise lastIndex is reset for a global regex and the while loop starts
SearchFor ==
    /\ srch.running /\ ~srch.inWhile
    /\ srch' = IF srch.i > Len(hist.lines)
               THEN [srch EXCEPT !.running = FALSE, !.returned = TRUE]
               ELSE [srch EXCEPT !.regex = SearchReset(@), !.inWhile = TRUE]
    /\ UNCHANGED <<hist, appended, appends, query>>
    /\ UNCHANGED exceptHistory

\* one turn of the while loop: regex.exec(line); a match is pushed, and the loop
\* goes on unless the regex is not global; without a match the for loop goes on
SearchWhile ==
    /\ srch.running /\ srch.inWhile
    /\ Len(srch.matches) < MaxMatches
    /\ LET r == RegExp_exec(srch.regex, hist.lines[srch.i])
           found == [line |-> srch.i - 1, column |-> r.index, text |-> srch.regex.source]
       IN  srch' = IF r.index = -1
                   THEN [srch EXCEPT !.regex = r.re, !.i = @ + 1, !.inWhile = FALSE]
                   ELSE IF ~srch.regex.global
                   THEN [srch EXCEPT !.regex = r.re, !.matches = Append(@, found),
                                     !.i = @ + 1, !.inWhile = FALSE]
                   ELSE [srch EXCEPT !.regex = r.re, !.matches = Append(@, found)]
    /\ UNCHANGED <<hist, appended, appends, query>>
    /\ UNCHANGED exceptHistory

\* ------------------------------------------------------------ the HookManager
HookIds == {"h1", "h2"}
HookSessions == {"s1", "s2"}
HookEvents == {"match", "ready", "exit"}
NoHook == [id |-> "none"]

\* a HookConfig; onMatch = <<>> when the hook has none
Hook(id, sid, m, r, e, o) ==
    [id |-> id, sessionId |-> sid, onMatch |-> m, onReady |-> r, onExit |-> e, once |-> o]

\* the configs passed to add
HookConfigs ==
    { Hook(id, "s1", <<>>, TRUE, FALSE, TRUE) : id \in HookIds } \cup
    { Hook(id, "s1", <<>>, TRUE, TRUE, once) : id \in HookIds, once \in BOOLEAN } \cup
    { Hook(id, sid, PatternLit, FALSE, FALSE, TRUE) : id \in HookIds, sid \in HookSessions }

\* the payloads passed to fire; data, match = <<>> when absent
HookPayloads ==
    { [sessionId |-> sid, data |-> d, match |-> m] :
        sid \in HookSessions, d \in {<<>>, <<"o", "k">>, <<"e">>}, m \in {<<>>, <<"o", "k">>} }

HookPresent(hs, id) == \E i \in 1..Len(hs) : hs[i].id = id

\* HookManager.add: Map.set keeps the position of an id it already holds
HookManager_add(hs, config) ==
    IF HookPresent(hs, config.id)
    THEN [i \in 1..Len(hs) |-> IF hs[i].id = config.id THEN config ELSE hs[i]]
    ELSE Append(hs, config)

\* HookManager.remove
HookManager_remove(hs, id) == SelectSeq(hs, LAMBDA h : h.id # id)

\* fire: does this event with this payload trigger the hook
Triggered(hook, event, payload) ==
    IF hook.sessionId # payload.sessionId THEN FALSE
    ELSE IF event = "match" /\ hook.onMatch # <<>>
    THEN IF payload.data # <<>> /\ payload.match = <<>>
         THEN Match(hook.onMatch, payload.data)
         ELSE IF payload.match # <<>> THEN Match(hook.onMatch, payload.match)
         ELSE FALSE
    ELSE IF event = "ready" /\ hook.onReady THEN TRUE
    ELSE IF event = "exit" /\ hook.onExit THEN TRUE
    ELSE FALSE

\* (mutant of HookTrigger: a once hook is not removed)
HookTrigger_keepOnce(st, hook) ==
    [st EXCEPT !.runs[hook.id] = @ + 1]

\* fire, for a triggered hook: run the command, remove the hook if it is once
HookTrigger(st, hook) ==
    [hooks |-> IF hook.once THEN HookManager_remove(st.hooks, hook.id) ELSE st.hooks,
     runs |-> [st.runs EXCEPT ![hook.id] = @ + 1]]

\* the loop of fire over the hooks the Map held when it started (the loop deletes
\* only the entry it is at)
RECURSIVE HookFireFrom(_, _, _, _)
HookFireFrom(todo, st, event, payload) ==
    IF todo = <<>> THEN st
    ELSE HookFireFrom(Tail(todo),
                      IF Triggered(Head(todo), event, payload)
                      THEN HookTrigger(st, Head(todo)) ELSE st,
                      event, payload)

\* HookManager.fire(event, payload)
HookManager_fire(hs, runs, event, payload) ==
    HookFireFrom(hs, [hooks |-> hs, runs |-> runs], event, payload)

\* hooks.add(config)
HookAdd(config) ==
    /\ hooks' = HookManager_add(hooks, config)
    /\ hookReg' = [hookReg EXCEPT ![config.id] = config]
    /\ hookRuns' = [hookRuns EXCEPT ![config.id] = 0]
    /\ hookSeen' = [hookSeen EXCEPT ![config.id] = 0]
    /\ UNCHANGED fires
    /\ UNCHANGED exceptHooks

\* hooks.remove(id)
HookRemove(id) ==
    /\ HookPresent(hooks, id)
    /\ hooks' = HookManager_remove(hooks, id)
    /\ UNCHANGED <<hookReg, hookRuns, hookSeen, fires>>
    /\ UNCHANGED exceptHooks

\* hooks.fire(event, payload)
HookFire(event, payload) ==
    /\ fires < MaxFires
    /\ fires' = fires + 1
    /\ LET r == HookManager_fire(hooks, hookRuns, event, payload)
       IN  hooks' = r.hooks /\ hookRuns' = r.runs
    /\ hookSeen' = [id \in HookIds |->
                      IF hookReg[id] # NoHook /\ Triggered(hookReg[id], event, payload)
                      THEN hookSeen[id] + 1 ELSE hookSeen[id]]
    /\ UNCHANGED hookReg
    /\ UNCHANGED exceptHooks

\* --------------------------------------------------------------- the registry
RegIds == {"a", "b"}
UnknownId == "z"
SessionOps == {"send", "sendKey", "sendKeys", "kill", "capture", "waitFor"}
NoSession == [state |-> "none", busy |-> FALSE, disposed |-> FALSE]
NoCall == [op |-> "none", id |-> "none", known |-> FALSE, outcome |-> "none"]
NoSeen == [seen |-> FALSE, disposed |-> FALSE, registered |-> FALSE]

\* Umux.getSession(id) !== undefined
InRegistry(order, id) == \E i \in 1..Len(order) : order[i] = id

\* Boolean(session.foregroundProcess) of a registry session
IsBusy(s) == s.state = "live" /\ s.busy

\* (mutant of PollSession: a first observation of an idle session emits ready)
PollSession_seedEmits(st, id) ==
    IF st.sess[id].state # "live"
    THEN [st EXCEPT !.readyState[id] = "unknown"]
    ELSE LET isBusy == IsBusy(st.sess[id])
             emitted == IF ~isBusy /\ st.readyState[id] # "idle"
                        THEN [st EXCEPT !.readyEmits[id] = @ + 1] ELSE st
         IN  [emitted EXCEPT !.readyState[id] = IF isBusy THEN "busy" ELSE "idle"]

\* the body of the poller's loop for one session
PollSession(st, id) ==
    IF st.sess[id].state # "live"
    THEN [st EXCEPT !.readyState[id] = "unknown"]
    ELSE LET isBusy == IsBusy(st.sess[id])
             wasBusy == st.readyState[id]
         IN  IF wasBusy = "unknown"
             THEN [st EXCEPT !.readyState[id] = IF isBusy THEN "busy" ELSE "idle"]
             ELSE LET emitted == IF wasBusy = "busy" /\ ~isBusy
                                 THEN [st EXCEPT !.readyEmits[id] = @ + 1] ELSE st
                  IN  [emitted EXCEPT !.readyState[id] = IF isBusy THEN "busy" ELSE "idle"]

\* the poller's loop over the sessions of the registry
RECURSIVE PollAll(_, _)
PollAll(todo, st) ==
    IF todo = <<>> THEN st ELSE PollAll(Tail(todo), PollSession(st, Head(todo)))

\* (mutant of Umux_destroySession: session:destroy is emitted before the session
\* leaves the registry)
Umux_destroySession_emitFirst(st, id) ==
    IF ~InRegistry(st.order, id) THEN st
    ELSE LET d == [st EXCEPT !.sess[id].disposed = TRUE]
             e == [d EXCEPT !.destroyEmits[id] = @ + 1,
                            !.destroySeen[id] =
                                [seen |-> TRUE, disposed |-> d.sess[id].disposed,
                                 registered |-> InRegistry(d.order, id)]]
         IN  [e EXCEPT !.order = SelectSeq(e.order, LAMBDA x : x # id),
                       !.readyState[id] = "unknown"]

\* Umux.destroySession(id): dispose, delete from sessions and readyState, emit
Umux_destroySession(st, id) ==
    IF ~InRegistry(st.order, id) THEN st
    ELSE LET d == [st EXCEPT !.sess[id].disposed = TRUE]
             r == [d EXCEPT !.order = SelectSeq(d.order, LAMBDA x : x # id),
                            !.readyState[id] = "unknown"]
         IN  [r EXCEPT !.destroyEmits[id] = @ + 1,
                       !.destroySeen[id] =
                           [seen |-> TRUE, disposed |-> r.sess[id].disposed,
                            registered |-> InRegistry(r.order, id)]]

\* the registry as a record, for the operators above
RegState ==
    [order |-> regOrder, sess |-> sess, readyState |-> readyState,
     readyEmits |-> readyEmits, destroyEmits |-> destroyEmits,
     destroySeen |-> destroySeen]

\* Umux.spawn: a session with a fresh id enters the registry
RegSpawn(id) ==
    /\ sess[id].state = "none"
    /\ sess' = [sess EXCEPT ![id] = [state |-> "live", busy |-> FALSE, disposed |-> FALSE]]
    /\ regOrder' = Append(regOrder, id)
    /\ UNCHANGED <<readyState, lastObs, readyEmits, transitions, destroyEmits,
                   destroySeen, lastCall, calls, polls>>
    /\ UNCHANGED exceptRegistry

\* the foreground process under the session's shell starts or ends
RegFgChange(id) ==
    /\ sess[id].state = "live"
    /\ sess' = [sess EXCEPT ![id].busy = ~@]
    /\ UNCHANGED <<regOrder, readyState, lastObs, readyEmits, transitions, destroyEmits,
                   destroySeen, lastCall, calls, polls>>
    /\ UNCHANGED exceptRegistry

\* ptyProcess.onExit of the session: _isAlive = false
RegExit(id) ==
    /\ sess[id].state = "live"
    /\ sess' = [sess EXCEPT ![id].state = "dead", ![id].busy = FALSE]
    /\ UNCHANGED <<regOrder, readyState, lastObs, readyEmits, transitions, destroyEmits,
                   destroySeen, lastCall, calls, polls>>
    /\ UNCHANGED exceptRegistry

\* one tick of the interval startReadyPolling installed
RegPoll ==
    /\ polls < MaxPolls
    /\ polls' = polls + 1
    /\ LET r == PollAll(regOrder, RegState)
       IN  readyState' = r.readyState /\ readyEmits' = r.readyEmits
    /\ lastObs' = [id \in RegIds |->
                     IF InRegistry(regOrder, id) /\ sess[id].state = "live"
                     THEN (IF sess[id].busy THEN "busy" ELSE "idle")
                     ELSE lastObs[id]]
    /\ transitions' = [id \in RegIds |->
                         IF /\ InRegistry(regOrder, id) /\ sess[id].state = "live"
                            /\ lastObs[id] = "busy" /\ ~sess[id].busy
                         THEN transitions[id] + 1 ELSE transitions[id]]
    /\ UNCHANGED <<regOrder, sess, destroyEmits, destroySeen, lastCall, calls>>
    /\ UNCHANGED exceptRegistry

\* umux.destroySession(id), for an id in the registry or not
RegDestroySession(id) ==
    /\ calls < MaxCalls
    /\ calls' = calls + 1
    /\ LET r == Umux_destroySession(RegState, id)
       IN  /\ regOrder' = r.order /\ sess' = r.sess /\ readyState' = r.readyState
           /\ destroyEmits' = r.destroyEmits /\ destroySeen' = r.destroySeen
    /\ lastCall' = [op |-> "destroySession", id |-> id,
                    known |-> InRegistry(regOrder, id), outcome |-> "returned"]
    /\ UNCHANGED <<lastObs, readyEmits, transitions, polls>>
    /\ UNCHANGED exceptRegistry

\* (mutant of UmuxCall: the call goes on without the lookup)
UmuxCall_noLookup(op, id) ==
    /\ calls < MaxCalls
    /\ calls' = calls + 1
    /\ lastCall' = [op |-> op, id |-> id, known |-> InRegistry(regOrder, id),
                    outcome |-> "delegated"]
    /\ UNCHANGED <<regOrder, sess, readyState, lastObs, readyEmits, transitions,
                   destroyEmits, destroySeen, polls>>
    /\ UNCHANGED exceptRegistry

\* umux.send / sendKey / sendKeys / kill / capture / waitFor (id, ...): the lookup;
\* for an id in the registry the call goes on in the session
UmuxCall(op, id) ==
    /\ calls < MaxCalls
    /\ calls' = calls + 1
    /\ lastCall' = [op |-> op, id |-> id, known |-> InRegistry(regOrder, id),
                    outcome |-> IF InRegistry(regOrder, id) THEN "delegated"
                                ELSE "notFound"]
    /\ UNCHANGED <<regOrder, sess, readyState, lastObs, readyEmits, transitions,
                   destroyEmits, destroySeen, polls>>
    /\ UNCHANGED exceptRegistry

\* -------------------------------------------------------------- the key codec
\* A string is a sequence of characters; ESC stands for "\x1b", DEL for "\x7f" and
\* "^A".."^Z" for the control characters 0x01..0x1a.
ESC == "ESC"
DEL == "DEL"
ControlChars ==
    <<"^A", "^B", "^C", "^D", "^E", "^F", "^G", "^H", "^I", "^J", "^K", "^L", "^M",
      "^N", "^O", "^P", "^Q", "^R", "^S", "^T", "^U", "^V", "^W", "^X", "^Y", "^Z">>

\* the characters used as keys, with their char codes
KeyChars == {"a", "c", "z", "C", "Z", "1", "@", "[", "{"}
CharCode(ch) ==
    CASE ch = "a" -> 97 [] ch = "c" -> 99 [] ch = "z" -> 122 [] ch = "C" -> 67
      [] ch = "Z" -> 90 [] ch = "1" -> 49 [] ch = "@" -> 64 [] ch = "[" -> 91
      [] ch = "{" -> 123

\* (mutant of LowerCode: the character is not lowercased)
LowerCode_asIs(ch) == CharCode(ch)

\* String.prototype.toLowerCase().charCodeAt(0) of a character
LowerCode(ch) ==
    IF CharCode(ch) >= 65 /\ CharCode(ch) <= 90 THEN CharCode(ch) + 32 ELSE CharCode(ch)

\* String.fromCharCode(n) for a control code
FromCharCode(n) == ControlChars[n]

\* the decimal digits of a modifier code
Decimal(n) ==
    LET digit(d) == <<"0", "1", "2", "3", "4", "5", "6", "7", "8", "9">>[d + 1]
    IN  IF n < 10 THEN <<digit(n)>> ELSE <<digit(n \div 10), digit(n % 10)>>

\* KEY_MAP
KEY_MAP ==
    [Enter |-> <<"\r">>, Tab |-> <<"\t">>, Escape |-> <<ESC>>, Backspace |-> <<DEL>>,
     Delete |-> <<ESC, "[", "3", "~">>, Space |-> <<" ">>,
     Up |-> <<ESC, "[", "A">>, Down |-> <<ESC, "[", "B">>,
     Right |-> <<ESC, "[", "C">>, Left |-> <<ESC, "[", "D">>,
     Home |-> <<ESC, "[", "H">>, End |-> <<ESC, "[", "F">>,
     PageUp |-> <<ESC, "[", "5", "~">>, PageDown |-> <<ESC, "[", "6", "~">>,
     Insert |-> <<ESC, "[", "2", "~">>,
     F1 |-> <<ESC, "O", "P">>, F2 |-> <<ESC, "O", "Q">>, F3 |-> <<ESC, "O", "R">>,
     F4 |-> <<ESC, "O", "S">>, F5 |-> <<ESC, "[", "1", "5", "~">>,
     F6 |-> <<ESC, "[", "1", "7", "~">>, F7 |-> <<ESC, "[", "1", "8", "~">>,
     F8 |-> <<ESC, "[", "1", "9", "~">>, F9 |-> <<ESC, "[", "2", "0", "~">>,
     F10 |-> <<ESC, "[", "2", "1", "~">>, F11 |-> <<ESC, "[", "2", "3", "~">>,
     F12 |-> <<ESC, "[", "2", "4", "~">>]

\* ARROW_BASE
ARROW_BASE ==
    [Up |-> "A", Down |-> "B", Right |-> "C", Left |-> "D", Home |-> "H", End |-> "F"]

\* the symbols of Key: those of KEY_MAP and the modifier symbols, which have no entry
KeyNames == DOMAIN KEY_MAP \cup {"Ctrl", "Alt", "Shift", "Meta"}

\* a KeyInput.  kind "text": a string; "named": a symbol of Key; "mod": a record
\* whose key is a string (keyType "string"), a symbol ("symbol") or neither
\* ("other"); "other": not a KeyInput at all
KeyInput(kind, keyType, text, name, c, a, s, m) ==
    [kind |-> kind, keyType |-> keyType, text |-> text, name |-> name,
     ctrl |-> c, alt |-> a, shift |-> s, meta |-> m]

TextKey(text) == KeyInput("text", "string", text, "", FALSE, FALSE, FALSE, FALSE)
NamedKey(name) == KeyInput("named", "symbol", <<>>, name, FALSE, FALSE, FALSE, FALSE)

KeyInputs ==
    { TextKey(t) : t \in {<<"x">>, <<"l", "s">>, <<>>} } \cup
    { NamedKey(n) : n \in KeyNames } \cup
    { KeyInput("mod", "string", <<ch>>, "", c, a, s, m) :
        ch \in KeyChars, c \in BOOLEAN, a \in BOOLEAN, s \in BOOLEAN, m \in BOOLEAN } \cup
    { KeyInput("mod", "string", <<"c", "d">>, "", c, a, FALSE, FALSE) :
        c \in BOOLEAN, a \in BOOLEAN } \cup
    { KeyInput("mod", "symbol", <<>>, n, c, a, s, m) :
        n \in KeyNames, c \in BOOLEAN, a \in BOOLEAN, s \in BOOLEAN, m \in BOOLEAN } \cup
    { KeyInput("mod", "other", <<>>, "", c, FALSE, FALSE, FALSE) : c \in BOOLEAN } \cup
    { KeyInput("other", "other", <<>>, "", FALSE, FALSE, FALSE, FALSE) }

Encoded(bytes) == [ok |-> TRUE, bytes |-> bytes, error |-> "none"]
KeyError(msg) == [ok |-> FALSE, bytes |-> <<>>, error |-> msg]

\* 1 + (shift ? 1 : 0) + (alt ? 2 : 0) + (ctrl ? 4 : 0) + (meta ? 8 : 0)
ModCode(k) ==
    1 + (IF k.shift THEN 1 ELSE 0) + (IF k.alt THEN 2 ELSE 0)
      + (IF k.ctrl THEN 4 ELSE 0) + (IF k.meta THEN 8 ELSE 0)

AnyModifier(k) == k.ctrl \/ k.alt \/ k.shift \/ k.meta

\* (mutant of KeyFallback: a string key no rule applies to is refused)
KeyFallback_refuse(k) == KeyError("Cannot encode key")

\* encodeKey, "Fallback: just return the key"
KeyFallback(k) == Encoded(k.text)

\* encodeKey for a ModifiedKey
encodeModified(k) ==
    IF /\ k.keyType = "string" /\ Len(k.text) = 1 /\ k.ctrl /\ ~k.alt /\ ~k.meta
       /\ LowerCode(k.text[1]) >= 97 /\ LowerCode(k.text[1]) <= 122
    THEN Encoded(<<FromCharCode(LowerCode(k.text[1]) - 96)>>)
    ELSE IF k.keyType = "symbol" /\ k.name = "Tab" /\ AnyModifier(k)
    THEN IF k.shift /\ ~k.ctrl /\ ~k.alt /\ ~k.meta
         THEN Encoded(<<ESC, "[", "Z">>)
         ELSE Encoded(<<ESC, "[", "1", ";">> \o Decimal(ModCode(k)) \o <<"Z">>)
    ELSE IF k.keyType = "symbol" /\ k.name \in DOMAIN ARROW_BASE /\ AnyModifier(k)
    THEN Encoded(<<ESC, "[", "1", ";">> \o Decimal(ModCode(k)) \o <<ARROW_BASE[k.name]>>)
    ELSE IF k.keyType = "symbol" /\ k.name \in DOMAIN KEY_MAP
    THEN IF k.alt /\ ~k.ctrl /\ ~k.meta
         THEN Encoded(<<ESC>> \o KEY_MAP[k.name])
         ELSE Encoded(KEY_MAP[k.name])
    ELSE IF k.keyType = "string" /\ k.alt /\ ~k.ctrl /\ ~k.meta
    THEN Encoded(<<ESC>> \o k.text)
    ELSE IF k.keyType = "string" THEN KeyFallback(k)
    ELSE KeyError("Cannot encode key")

\* encodeKey(input)
encodeKey(k) ==
    IF k.kind = "text" THEN Encoded(k.text)
    ELSE IF k.kind = "named"
    THEN IF k.name \in DOMAIN KEY_MAP THEN Encoded(KEY_MAP[k.name])
         ELSE KeyError("Unknown key")
    ELSE IF k.kind = "mod" THEN encodeModified(k)
    ELSE KeyError("Invalid key input")

\* encodeKeys(inputs): the encodings joined; the first failure throws
RECURSIVE encodeKeys(_)
encodeKeys(ks) ==
    IF ks = <<>> THEN Encoded(<<>>)
    ELSE LET first == encodeKey(Head(ks))
             rest == encodeKeys(Tail(ks))
         IN  IF ~first.ok THEN first
             ELSE IF ~rest.ok THEN rest
             ELSE Encoded(first.bytes \o rest.bytes)

NoKeyOut == [ok |-> FALSE, bytes |-> <<>>, error |-> "not called"]

\* encodeKey(keyIn) is called
KeyEncode ==
    /\ keyOut = NoKeyOut
    /\ keyOut' = encodeKey(keyIn)
    /\ UNCHANGED keyIn
    /\ UNCHANGED exceptKeys

\* the caller takes another key
KeyPick(k) ==
    /\ keyOut # NoKeyOut
    /\ keyIn' = k /\ keyOut' = NoKeyOut
    /\ UNCHANGED exceptKeys

\* ------------------------------------------------------- the session's input
\* formatKeyInputForLog(key)
formatKeyInputForLog(k) ==
    IF k.kind = "text" THEN k.text
    ELSE IF k.kind = "named" THEN <<"<", k.name, ">">>
    ELSE LET base == IF k.keyType = "symbol" THEN <<k.name>> ELSE k.text
             mods == (IF k.ctrl THEN <<"Ctrl", "+">> ELSE <<>>)
                     \o (IF k.alt THEN <<"Alt", "+">> ELSE <<>>)
                     \o (IF k.shift THEN <<"Shift", "+">> ELSE <<>>)
                     \o (IF k.meta THEN <<"Meta", "+">> ELSE <<>>)
         IN  <<"<">> \o mods \o base \o <<">">>

\* the keys passed to sendKey and sendKeys (all of type KeyInput)
SentKeys ==
    { TextKey(<<"x">>), NamedKey("Enter"), NamedKey("Ctrl"),
      KeyInput("mod", "string", <<"c">>, "", TRUE, FALSE, FALSE, FALSE),
      KeyInput("mod", "symbol", <<>>, "Shift", FALSE, TRUE, FALSE, FALSE) }

\* the key lists passed to sendKeys
SentKeyLists ==
    {<<>>} \cup { <<k>> : k \in SentKeys } \cup { <<k1, k2>> : k1, k2 \in SentKeys }

\* the texts passed to send
SentTexts == { <<"l", "s", NL>>, <<"x">> }

\* this._inputHistory.append(entry) and writeJsonlLog of one input event
LogInput(st, entries) ==
    IF ~st.logInput THEN st
    ELSE LET RECURSIVE AppendAll(_, _)
             AppendAll(h, es) ==
                 IF es = <<>> THEN h ELSE AppendAll(History_append(h, Head(es)), Tail(es))
         IN  [st EXCEPT !.inputHistory = AppendAll(st.inputHistory, entries),
                        !.appendCalls = @ + Len(entries),
                        !.jsonl = IF st.logStream THEN @ + 1 ELSE @]

\* writeRaw(data) when the encoding succeeded; the exception otherwise
WriteEncoded(st, enc) ==
    IF enc.ok THEN [st EXCEPT !.pty = @ \o enc.bytes, !.outcome = "ok"]
    ELSE [st EXCEPT !.outcome = "invalidKey"]

NotAlive(st) == [st EXCEPT !.outcome = "notAlive"]

\* SessionImpl.send(data)
SessionImpl_send(st, data) ==
    IF ~st.alive THEN NotAlive(st)
    ELSE WriteEncoded(LogInput(st, <<data>>), Encoded(data))

\* (mutant of SessionImpl_sendKey: the alive test is left out)
SessionImpl_sendKey_unchecked(st, key) ==
    WriteEncoded(LogInput(st, <<formatKeyInputForLog(key)>>), encodeKey(key))

\* SessionImpl.sendKey(key)
SessionImpl_sendKey(st, key) ==
    IF ~st.alive THEN NotAlive(st)
    ELSE WriteEncoded(LogInput(st, <<formatKeyInputForLog(key)>>), encodeKey(key))

\* SessionImpl.sendKeys(keys)
SessionImpl_sendKeys(st, keys) ==
    IF ~st.alive THEN NotAlive(st)
    ELSE WriteEncoded(LogInput(st, [i \in 1..Len(keys) |-> formatKeyInputForLog(keys[i])]),
                      encodeKeys(keys))

\* the input side of the session as a record, for the operators above
InputState ==
    [alive |-> inAlive, logInput |-> logInput, logStream |-> logStream,
     inputHistory |-> inputHistory, appendCalls |-> 0, jsonl |-> 0,
     pty |-> <<>>, outcome |-> "none"]

\* what a call with these keys left behind: st is InputState after the call
Sent(op, keys, st) ==
    /\ sends < MaxSends
    /\ sends' = sends + 1
    /\ inputHistory' = st.inputHistory
    /\ ptyWritten' = ptyWritten \o st.pty
    /\ lastSend' = [op |-> op, alive |-> inAlive, outcome |-> st.outcome,
                    wrote |-> st.pty, appendCalls |-> st.appendCalls,
                    logged |-> st.jsonl]
    /\ okSent' = IF st.outcome = "ok" THEN okSent \o keys ELSE okSent
    /\ UNCHANGED <<inAlive, logInput, logStream>>
    /\ UNCHANGED exceptInput

\* session.send(data)
InSend(data) == Sent("send", <<TextKey(data)>>, SessionImpl_send(InputState, data))

\* session.sendKey(key)
InSendKey(key) == Sent("sendKey", <<key>>, SessionImpl_sendKey(InputState, key))

\* session.sendKeys(keys)
InSendKeys(keys) == Sent("sendKeys", keys, SessionImpl_sendKeys(InputState, keys))

\* ptyProcess.onExit: _isAlive = false
InExit ==
    /\ inAlive
    /\ inAlive' = FALSE
    /\ UNCHANGED <<logInput, logStream, inputHistory, ptyWritten, lastSend, sends, okSent>>
    /\ UNCHANGED exceptInput

\* ------------------------------------------------------------ the EventEmitter
EmEvents == {"output", "exit"}
EmHandlers == {"f", "g", "h"}
NoEmit == [ev |-> "none", invoked |-> <<>>, logged |-> 0, thrown |-> FALSE]

\* (mutant of EmitFrom: no try/catch around the handler call)
RECURSIVE EmitFrom_noCatch(_, _)
EmitFrom_noCatch(todo, acc) ==
    IF todo = <<>> THEN acc
    ELSE LET called == [acc EXCEPT !.invoked = Append(@, Head(todo))]
         IN  IF Head(todo) \in emThrows THEN [called EXCEPT !.thrown = TRUE]
             ELSE EmitFrom_noCatch(Tail(todo), called)

\* EventEmitter.emit / SessionImpl.emitEvent: the loop over the Set, each handler
\* called inside try/catch, the error logged with console.error
RECURSIVE EmitFrom(_, _)
EmitFrom(todo, acc) ==
    IF todo = <<>> THEN acc
    ELSE LET called == [acc EXCEPT !.invoked = Append(@, Head(todo))]
         IN  EmitFrom(Tail(todo),
                      IF Head(todo) \in emThrows THEN [called EXCEPT !.logged = @ + 1]
                      ELSE called)

\* on(event, handler): Set.add keeps the place of a handler already in the Set
EmOn(ev, f) ==
    /\ emClock < MaxEmitOps
    /\ emClock' = emClock + 1
    /\ emSubs' = [emSubs EXCEPT ![ev] =
                    IF \E i \in 1..Len(@) : @[i] = f THEN @ ELSE Append(@, f)]
    /\ emAt' = [emAt EXCEPT ![ev][f] = IF @ = 0 THEN emClock + 1 ELSE @]
    /\ emLast' = NoEmit
    /\ UNCHANGED emThrows
    /\ UNCHANGED exceptEmit

\* off(event, handler)
EmOff(ev, f) ==
    /\ emClock < MaxEmitOps
    /\ emClock' = emClock + 1
    /\ emSubs' = [emSubs EXCEPT ![ev] = SelectSeq(@, LAMBDA x : x # f)]
    /\ emAt' = [emAt EXCEPT ![ev][f] = 0]
    /\ emLast' = NoEmit
    /\ UNCHANGED emThrows
    /\ UNCHANGED exceptEmit

\* emit(event, data)
EmEmit(ev) ==
    /\ emClock < MaxEmitOps
    /\ emClock' = emClock + 1
    /\ emLast' = EmitFrom(emSubs[ev], [NoEmit EXCEPT !.ev = ev])
    /\ UNCHANGED <<emSubs, emAt, emThrows>>
    /\ UNCHANGED exceptEmit

\* new EventEmitter()
EmitUnused ==
    /\ emSubs = [ev \in EmEvents |-> <<>>]
    /\ emAt = [ev \in EmEvents |-> [f \in EmHandlers |-> 0]]
    /\ emClock = 0 /\ emThrows = {} /\ emLast = NoEmit

\* ------------------------------------------------- the session's output path
QueryTailLimit == 64    \* scan.slice(-64)
BEL == "BEL"
DefaultCols == 80       \* options.cols ?? 80
DefaultRows == 43       \* options.rows ?? 43

\* respondToTerminalQueries: the queries in the order they are tested, each with
\* the strings looked for in the scan, the reply and its note
TerminalQueries ==
    << [needles |-> {<<ESC, "[", "6", "n">>},
        payload |-> <<ESC, "[", "1", ";", "1", "R">>, note |-> "CPR"],
       [needles |-> {<<ESC, "[", "5", "n">>},
        payload |-> <<ESC, "[", "0", "n">>, note |-> "DSR"],
       [needles |-> {<<ESC, "[", "c">>, <<ESC, "[", "0", "c">>},
        payload |-> <<ESC, "[", "?", "1", ";", "2", "c">>, note |-> "DA1"],
       [needles |-> {<<ESC, "[", ">", "c">>, <<ESC, "[", ">", "0", "c">>},
        payload |-> <<ESC, "[", ">", "0", ";", "0", ";", "0", "c">>, note |-> "DA2"],
       [needles |-> {<<ESC, "Z">>},
        payload |-> <<ESC, "[", "?", "1", ";", "2", "c">>, note |-> "DECID"],
       [needles |-> {<<ESC, "[", "?", "u">>},
        payload |-> <<ESC, "[", "?", "0", "u">>, note |-> "KITTY_KBD_QUERY"],
       [needles |-> {<<ESC, "[", "1", "8", "t">>},
        payload |-> <<ESC, "[", "8", ";">> \o Decimal(DefaultRows) \o <<";">>
                    \o Decimal(DefaultCols) \o <<"t">>,
        note |-> "XTERM_SIZE_CHARS"],
       [needles |-> {<<ESC, "[", "1", "4", "t">>},
        payload |-> <<ESC, "[", "4", ";", "0", ";", "0", "t">>, note |-> "XTERM_SIZE_PX"],
       [needles |-> {<<ESC, "]", "1", "0", ";", "?", ESC, "\\">>,
                     <<ESC, "]", "1", "0", ";", "?", BEL>>},
        payload |-> <<ESC, "]", "1", "0", ";", "rgb:ffff/ffff/ffff", ESC, "\\">>,
        note |-> "OSC_FG_QUERY"],
       [needles |-> {<<ESC, "]", "1", "1", ";", "?", ESC, "\\">>,
                     <<ESC, "]", "1", "1", ";", "?", BEL>>},
        payload |-> <<ESC, "]", "1", "1", ";", "rgb:0000/0000/0000", ESC, "\\">>,
        note |-> "OSC_BG_QUERY"],
       [needles |-> {<<ESC, "]", "1", "2", ";", "?", ESC, "\\">>,
                     <<ESC, "]", "1", "2", ";", "?", BEL>>},
        payload |-> <<ESC, "]", "1", "2", ";", "rgb:ffff/ffff/ffff", ESC, "\\">>,
        note |-> "OSC_CURSOR_QUERY"] >>

\* (mutant of reply: the payload also goes into the output history)
reply_intoHistory(st, q) ==
    [st EXCEPT !.ptyIn = @ \o q.payload, !.replyLog = Append(@, q.note),
               !.history = History_append(@, q.payload)]

\* respondToTerminalQueries.reply: writeRaw(payload)
reply(st, q) ==
    [st EXCEPT !.ptyIn = @ \o q.payload, !.replyLog = Append(@, q.note)]

\* respondToTerminalQueries: the tests on scan, from query i on
RECURSIVE RespondFrom(_, _, _)
RespondFrom(st, scan, i) ==
    IF i > Len(TerminalQueries) THEN st
    ELSE LET q == TerminalQueries[i]
         IN  RespondFrom(IF \E needle \in q.needles : Match(needle, scan)
                         THEN reply(st, q) ELSE st,
                         scan, i + 1)

\* SessionImpl.respondToTerminalQueries(data)
respondToTerminalQueries(st, data) ==
    LET scan == st.queryScanTail \o data
    IN  RespondFrom([st EXCEPT !.queryScanTail = SliceLast(scan, QueryTailLimit)],
                    scan, 1)

\* s ends with t
EndsWith(s, t) == Len(t) <= Len(s) /\ SubSeq(s, Len(s) - Len(t) + 1, Len(s)) = t

\* the write callback of onData: emitEvent('screen') for chunk n; applied tells
\* whether the engine had the chunk's bytes as the last it applied
emitScreen(st, n) ==
    [st EXCEPT !.events =
        Append(@, [type |-> "screen", chunk |-> n,
                   applied |-> EndsWith(st.engine.fed, st.stream[n]),
                   history |-> st.history])]

\* (mutant of implWrite: the callback is called before the bytes are applied)
implWrite_callbackFirst(st, data, n) ==
    LET called == IF n > 0 THEN emitScreen(st, n) ELSE st
    IN  [called EXCEPT !.engine.fed = @ \o data]

\* impl.write(data, onScreen) (n = 0: no callback): GhosttyWasmTerminalEngine.write
\* and XtermTerminalEngine.write with _core.writeSync apply the bytes and call
\* back; XtermTerminalEngine.write without it queues both in terminal.write
implWrite(st, data, n) ==
    IF st.engine.impl = "primary" \/ st.engine.writeSync
    THEN LET fed == [st EXCEPT !.engine.fed = @ \o data]
         IN  IF n > 0 THEN emitScreen(fed, n) ELSE fed
    ELSE [st EXCEPT !.engine.queue = Append(@, [data |-> data, chunk |-> n])]

\* ResilientEngine.swapToFallback
swapToFallback(st) ==
    implWrite([st EXCEPT !.engine.impl = "fallback", !.engine.fed = <<>>,
                         !.engine.queue = <<>>],
              st.engine.replay, 0)

\* ResilientEngine.write(data, onScreen); throws: the primary impl throws on it
ResilientEngine_write(st, data, n, throws) ==
    LET kept == [st EXCEPT !.engine.replay = SliceLast(@ \o data, MaxReplayBytes)]
    IN  IF kept.engine.impl = "primary" /\ throws
        THEN implWrite(swapToFallback(kept), data, n)
        ELSE implWrite(kept, data, n)

\* the output path of the session as a record, for the operators above
OutputState ==
    [queryScanTail |-> queryScanTail, ptyIn |-> ptyIn, replyLog |-> replyLog,
     history |-> outHistory, engine |-> engine, events |-> outEvents, stream |-> stream]

\* the chunks the PTY delivers: text, a cursor position query whole, in two
\* halves and twice, a device attributes query, and text as long as the scan tail
OutChunks ==
    { <<"a">>, <<"b", NL>>,
      <<ESC, "[", "6", "n">>, <<ESC, "[">>, <<"6", "n">>,
      <<ESC, "[", "6", "n", "a", ESC, "[", "6", "n">>,
      <<ESC, "[", "c">>,
      [i \in 1..QueryTailLimit |-> "x"] }

\* emitEvent('output', {data}) for chunk n: the event, with the output history as
\* its subscribers find it
emitOutput(st, n) ==
    [st EXCEPT !.events =
        Append(@, [type |-> "output", chunk |-> n, applied |-> FALSE,
                   history |-> st.history])]

\* (mutant of onData: the output event is emitted before the chunk is appended)
onData_emitFirst(st0, data, n, throws) ==
    LET st1 == respondToTerminalQueries(st0, data)
        st2 == emitOutput(st1, n)
        st3 == [st2 EXCEPT !.history = History_append(@, data)]
    IN  ResilientEngine_write(st3, data, n, throws)

\* the callback of ptyProcess.onData for chunk n: answer the queries, append to
\* the history, write to the engine, emit output
onData(st0, data, n, throws) ==
    LET st1 == respondToTerminalQueries(st0, data)
        st2 == [st1 EXCEPT !.history = History_append(@, data)]
        st3 == ResilientEngine_write(st2, data, n, throws)
    IN  emitOutput(st3, n)

\* ptyProcess.onData(data)
OnData(data, throws) ==
    /\ Len(stream) < MaxOutChunks
    /\ throws => engine.impl = "primary"
    /\ LET n == Len(stream) + 1
           st4 == onData([OutputState EXCEPT !.stream = Append(@, data)],
                         data, n, throws)
       IN  /\ queryScanTail' = st4.queryScanTail
           /\ ptyIn' = st4.ptyIn
           /\ replyLog' = st4.replyLog
           /\ outHistory' = st4.history
           /\ engine' = st4.engine
           /\ outEvents' = st4.events
           /\ stream' = st4.stream
           /\ lastSwap' = IF throws
                          THEN [chunk |-> n, given |-> st4.engine.fed,
                                replay |-> st4.engine.replay]
                          ELSE lastSwap
    /\ UNCHANGED exceptOutput

\* xterm has parsed the oldest queued write and calls its callback
EngineParsed ==
    /\ engine.queue # <<>>
    /\ LET w == Head(engine.queue)
           st1 == [OutputState EXCEPT !.engine.fed = @ \o w.data,
                                      !.engine.queue = Tail(@)]
           st2 == IF w.chunk > 0 THEN emitScreen(st1, w.chunk) ELSE st1
       IN  /\ engine' = st2.engine
           /\ outEvents' = st2.events
    /\ lastSwap' = IF lastSwap.chunk > 0 /\ engine.queue[1].chunk <= lastSwap.chunk
                   THEN [lastSwap EXCEPT !.given = @ \o engine.queue[1].data]
                   ELSE lastSwap
    /\ UNCHANGED <<queryScanTail, ptyIn, replyLog, outHistory, stream>>
    /\ UNCHANGED exceptOutput

NoSwap == [chunk |-> 0, given |-> <<>>, replay |-> <<>>]
NewEngine(impl, writeSync) ==
    [impl |-> impl, writeSync |-> writeSync, replay |-> <<>>, fed |-> <<>>,
     queue |-> <<>>]

\* a session that has received no output
OutputUnused ==
    /\ queryScanTail = <<>> /\ ptyIn = <<>> /\ replyLog = <<>>
    /\ outHistory = History_new(HistoryLimit)
    /\ engine = NewEngine("fallback", TRUE)
    /\ outEvents = <<>> /\ stream = <<>> /\ lastSwap = NoSwap

\* ------------------------------------------------------------ specifications
\* new Umux(): no session yet
SessionInit ==
    /\ now = 0 /\ spawned = FALSE /\ registered = FALSE
    /\ alive = FALSE /\ exitCode = NoCode /\ child = "none"
    /\ fgBusy = FALSE /\ disposed = FALSE
    /\ history = History_new(HistoryLimit) /\ screen = <<>> /\ chunks = 0
    /\ handlers = NoHandlers /\ cur = NoFrame /\ pending = <<>>
    /\ waits = [w \in WaitIds |-> NoWait]
    /\ exitEmits = 0 /\ lateInvoke = FALSE /\ lateLoop = FALSE /\ lateRegEmit = FALSE
    /\ lateRun = [w \in WaitIds |-> FALSE]

\* no History under test
HistoryUnused ==
    /\ hist = History_new(HistoryLimit) /\ appended = <<>> /\ appends = 0
    /\ query = NoQuery /\ srch = NoSearch

\* new HookManager()
HooksInit ==
    /\ hooks = <<>> /\ fires = 0
    /\ hookReg = [id \in HookIds |-> NoHook]
    /\ hookRuns = [id \in HookIds |-> 0]
    /\ hookSeen = [id \in HookIds |-> 0]

\* new Umux(): an empty registry, the poller installed
RegistryInit ==
    /\ regOrder = <<>> /\ calls = 0 /\ polls = 0
    /\ sess = [id \in RegIds |-> NoSession]
    /\ readyState = [id \in RegIds |-> "unknown"]
    /\ lastObs = [id \in RegIds |-> "none"]
    /\ readyEmits = [id \in RegIds |-> 0]
    /\ transitions = [id \in RegIds |-> 0]
    /\ destroyEmits = [id \in RegIds |-> 0]
    /\ destroySeen = [id \in RegIds |-> NoSeen]
    /\ lastCall = NoCall

\* no key being encoded
KeysUnused == keyIn = TextKey(<<>>) /\ keyOut = NoKeyOut

NoSend == [op |-> "none", alive |-> FALSE, outcome |-> "none", wrote |-> <<>>,
           appendCalls |-> 0, logged |-> 0]

\* a session nothing has been written to
InputUnused ==
    /\ inAlive = TRUE /\ logInput = TRUE /\ logStream = FALSE
    /\ inputHistory = History_new(HistoryLimit) /\ ptyWritten = <<>>
    /\ lastSend = NoSend /\ sends = 0 /\ okSent = <<>>

Init ==
    /\ SessionInit
    /\ HistoryUnused
    /\ HooksInit
    /\ RegistryInit
    /\ KeysUnused /\ OutputUnused /\ EmitUnused
    /\ InputUnused

Next ==
    \/ Spawn
    \/ FgChange
    \/ \E data \in Chunks : PtyData(data)
    \/ \E code \in ExitCodes : ChildExit(code)
    \/ \E w \in WaitIds : DeliverWait(w)
    \/ \E destroys \in BOOLEAN : DeliverFwd(destroys)
    \/ \E w \in 1..MaxWaits, c \in Conds : WaitFor(w, c)
    \/ \E w \in WaitIds : IdleFire(w)
    \/ \E w \in WaitIds : TimeoutFire(w)
    \/ \E w \in WaitIds : ReadyPoll(w)
    \/ Tick
    \/ Kill
    \/ DestroySession
    \/ SessionDispose

Spec == Init /\ [][Next]_vars

\* text as long as the scan tail
Filler == [i \in 1..ScanTailLimit |-> "x"]

\* chunks that split the pattern in two, alone or at either end of a long text
ScanChunks == { <<"o">>, <<"k">>, Filler \o <<"o">>, <<"k">> \o Filler, Filler }

\* waits for the pattern, without and with a not pattern
ScanConds ==
    { Cond(TRUE, FALSE, FALSE, 0, FALSE, FALSE, 0, "none"),
      Cond(TRUE, TRUE, FALSE, 0, FALSE, FALSE, WaitTimeout, "none") }

\* a session whose output arrives in chunks longer than the scan tail, with a wait
\* for a pattern made before, between or after them
ScanNext ==
    \/ Spawn
    \/ \E data \in ScanChunks : PtyData(data)
    \/ \E w \in WaitIds : DeliverWait(w)
    \/ \E destroys \in BOOLEAN : DeliverFwd(destroys)
    \/ \E w \in 1..MaxWaits, c \in ScanConds : WaitFor(w, c)

ScanSpec == Init /\ [][ScanNext]_vars

\* the conditions of the waits that run concurrently: a pattern, not and a
\* pattern, exit, an idle window
PairConds ==
    { Cond(TRUE, FALSE, FALSE, 0, FALSE, FALSE, WaitTimeout, "none"),
      Cond(TRUE, TRUE, FALSE, 0, FALSE, FALSE, 0, "none"),
      Cond(FALSE, FALSE, FALSE, 0, TRUE, FALSE, WaitTimeout, "none"),
      Cond(FALSE, FALSE, FALSE, IdleWindow, FALSE, FALSE, 0, "none") }

\* a session with up to two waits pending at once
PairNext ==
    \/ Spawn
    \/ \E data \in Chunks : PtyData(data)
    \/ \E code \in ExitCodes : ChildExit(code)
    \/ \E w \in WaitIds : DeliverWait(w)
    \/ DeliverFwd(FALSE)
    \/ \E w \in WaitIds, c \in PairConds : WaitFor(w, c)
    \/ \E w \in WaitIds : IdleFire(w)
    \/ \E w \in WaitIds : TimeoutFire(w)
    \/ Tick

PairSpec == Init /\ [][PairNext]_vars

\* The event loop runs every callback that is ready: a started emitEvent loop runs
\* on, a due timer fires, and the clock advances.
Fairness ==
    /\ WF_vars(Tick)
    /\ WF_vars(\E w \in WaitIds : DeliverWait(w))
    /\ WF_vars(DeliverFwd(FALSE))
    /\ \A w \in WaitIds : /\ WF_vars(IdleFire(w))
                          /\ WF_vars(TimeoutFire(w))
                          /\ WF_vars(ReadyPoll(w))

FairSpec == Init /\ [][Next]_vars /\ Fairness

\* a History of some capacity, appended to chunk by chunk
HistoryInit ==
    /\ SessionInit
    /\ \E limit \in 0..MaxHistLimit : hist = History_new(limit)
    /\ appended = <<>> /\ appends = 0 /\ query = NoQuery /\ srch = NoSearch
    /\ HooksInit
    /\ RegistryInit
    /\ KeysUnused /\ OutputUnused /\ EmitUnused
    /\ InputUnused

HistoryNext ==
    \/ \E data \in HistChunks : HistAppend(data)
    \/ \E n \in 0..MaxTail : HistTail(n)
    \/ \E re \in Regexes : HistSearch(re)

HistorySpec == HistoryInit /\ [][HistoryNext]_vars

\* a History that is appended to and searched, the search one loop turn a step
\* (search is synchronous: nothing is appended while it runs)
SearchChunks == { <<"1">>, <<NL>>, <<"1", "1", NL>>, <<"2", NL, "1">> }

SearchNext ==
    \/ \E data \in SearchChunks : ~srch.running /\ HistAppend(data)
    \/ \E re \in SearchRegexes : SearchBegin(re)
    \/ SearchFor
    \/ SearchWhile

SearchSpec == HistoryInit /\ [][SearchNext]_vars

\* a hook manager: hooks are added and removed, events fired
HookInit ==
    SessionInit /\ HistoryUnused /\ HooksInit /\ RegistryInit /\ KeysUnused /\ OutputUnused /\ EmitUnused /\ InputUnused

HookNext ==
    \/ \E config \in HookConfigs : HookAdd(config)
    \/ \E id \in HookIds : HookRemove(id)
    \/ \E event \in HookEvents, payload \in HookPayloads : HookFire(event, payload)

HookSpec == HookInit /\ [][HookNext]_vars

\* The registry and the hook manager of one server (createApp): sessions are
\* spawned, exit and are destroyed; hooks are added for session ids and removed;
\* umux events, and direct calls, fire the hooks for a session id.
AppHookConfigs ==
    { Hook("h1", sid, <<>>, FALSE, TRUE, once) : sid \in RegIds, once \in BOOLEAN } \cup
    { Hook("h2", sid, PatternLit, FALSE, FALSE, FALSE) : sid \in RegIds }

AppPayloads ==
    { [sessionId |-> sid, data |-> d, match |-> <<>>] :
        sid \in RegIds, d \in {<<>>, <<"o", "k">>} }

AppNext ==
    \/ \E id \in RegIds : RegSpawn(id)
    \/ \E id \in RegIds : RegExit(id)
    \/ \E id \in RegIds : RegDestroySession(id)
    \/ \E config \in AppHookConfigs : HookAdd(config)
    \/ \E id \in HookIds : HookRemove(id)
    \/ \E event \in {"match", "exit"}, payload \in AppPayloads : HookFire(event, payload)

AppSpec == HookInit /\ [][AppNext]_vars

\* the registry: sessions come and go, the poller ticks, calls name a session id
RegInit ==
    SessionInit /\ HistoryUnused /\ HooksInit /\ RegistryInit /\ KeysUnused /\ OutputUnused /\ EmitUnused /\ InputUnused

RegNext ==
    \/ \E id \in RegIds : RegSpawn(id)
    \/ \E id \in RegIds : RegFgChange(id)
    \/ \E id \in RegIds : RegExit(id)
    \/ RegPoll
    \/ \E id \in RegIds \cup {UnknownId} : RegDestroySession(id)
    \/ \E op \in SessionOps, id \in RegIds \cup {UnknownId} : UmuxCall(op, id)

RegistrySpec == RegInit /\ [][RegNext]_vars

\* the key codec applied to one KeyInput after another
KeyInit ==
    /\ SessionInit /\ HistoryUnused /\ HooksInit /\ RegistryInit
    /\ keyIn \in KeyInputs /\ keyOut = NoKeyOut
    /\ InputUnused /\ EmitUnused /\ OutputUnused

KeyNext == KeyEncode \/ \E k \in KeyInputs : KeyPick(k)

KeySpec == KeyInit /\ [][KeyNext]_vars

\* a spawned session (input logging on or off, with or without a log file) that
\* text and keys are sent to until and after its child exits
InputInit ==
    /\ SessionInit /\ HistoryUnused /\ HooksInit /\ RegistryInit /\ KeysUnused /\ OutputUnused /\ EmitUnused
    /\ inAlive = TRUE /\ logInput \in BOOLEAN /\ logStream \in BOOLEAN
    /\ inputHistory = History_new(HistoryLimit) /\ ptyWritten = <<>>
    /\ lastSend = NoSend /\ sends = 0 /\ okSent = <<>>

InputNext ==
    \/ \E data \in SentTexts : InSend(data)
    \/ \E key \in SentKeys : InSendKey(key)
    \/ \E keys \in SentKeyLists : InSendKeys(keys)
    \/ InExit

InputSpec == InputInit /\ [][InputNext]_vars

\* an emitter whose handlers, some of which throw, subscribe and unsubscribe
\* between emits
EmitInit ==
    /\ SessionInit /\ HistoryUnused /\ HooksInit /\ RegistryInit /\ KeysUnused
    /\ InputUnused /\ OutputUnused
    /\ emSubs = [ev \in EmEvents |-> <<>>]
    /\ emAt = [ev \in EmEvents |-> [f \in EmHandlers |-> 0]]
    /\ emClock = 0 /\ emThrows \in SUBSET EmHandlers /\ emLast = NoEmit

EmitNext ==
    \/ \E ev \in EmEvents, f \in EmHandlers : EmOn(ev, f)
    \/ \E ev \in EmEvents, f \in EmHandlers : EmOff(ev, f)
    \/ \E ev \in EmEvents : EmEmit(ev)

EmitSpec == EmitInit /\ [][EmitNext]_vars

\* a session receiving output: its engine starts on the primary or (when creating
\* the primary failed) on the fallback, whose xterm has writeSync or not
OutputInit ==
    /\ SessionInit /\ HistoryUnused /\ HooksInit /\ RegistryInit /\ KeysUnused
    /\ InputUnused /\ EmitUnused
    /\ queryScanTail = <<>> /\ ptyIn = <<>> /\ replyLog = <<>>
    /\ outHistory = History_new(HistoryLimit)
    /\ \E impl \in {"primary", "fallback"}, writeSync \in BOOLEAN :
          engine = NewEngine(impl, writeSync)
    /\ outEvents = <<>> /\ stream = <<>> /\ lastSwap = NoSwap

OutputNext ==
    \/ \E data \in OutChunks, throws \in BOOLEAN : OnData(data, throws)
    \/ EngineParsed

OutputSpec == OutputInit /\ [][OutputNext]_vars


\* ------------------------------------------------------------------- claims
Used(w) == waits[w].used
Pending(w) == waits[w].used /\ ~waits[w].resolved
HasHandler(w) ==
    \E ev \in EventNames : \E i \in 1..Len(handlers[ev]) : handlers[ev][i] = WaitHandler(w)
InLoop(w) == \E i \in 1..Len(cur.todo) : cur.todo[i] = WaitHandler(w)
AnyTimer(w) ==
    \/ waits[w].idleTimer # NoTimer
    \/ waits[w].timeoutTimer # NoTimer
    \/ waits[w].readyPollTimer # NoTimer

\* C1: a waitFor call resolves exactly once: resolve is called at most once per
\* wait, and once the promise is settled no later event or timer changes its
\* state or its result.
C1_ResolvesOnce ==
    /\ [](\A w \in WaitIds : waits[w].resolveCalls <= 1)
    /\ [][\A w \in WaitIds :
            waits[w].promise \in {"fulfilled", "rejected"}
            => /\ waits'[w].promise = waits[w].promise
               /\ waits'[w].result = waits[w].result]_vars

\* a wait that asked for exit among others resolved for another reason while the
\* child was running, and the child has exited since
C1_Witness ==
    \E w \in WaitIds :
        /\ waits[w].cond.exit /\ ~waits[w].atCall.dead
        /\ waits[w].result.reason \in {"pattern", "rejected", "screen", "idle", "timeout"}
        /\ child = "exited" /\ Idle
        /\ waits[w].resolveCalls = 1

\* C2: once a wait has resolved (by an event, a timer or a pre-check of the call)
\* it has no subscription left on the session, none of its timers is armed, and
\* none of its handlers has run since.
C2_ResolvedIsTornDown ==
    \A w \in WaitIds :
        waits[w].resolved => ~HasHandler(w) /\ ~InLoop(w) /\ ~AnyTimer(w) /\ ~lateRun[w]

\* a wait with idle, timeout and ready poll requested was resolved by a pre-check,
\* and output arrived afterwards
C2_Witness ==
    \E w \in WaitIds :
        /\ waits[w].resolved /\ waits[w].result.waitedMs = 0
        /\ waits[w].cond.idle > 0 /\ waits[w].cond.timeout > 0 /\ waits[w].cond.ready
        /\ waits[w].scanTail = <<>>
        /\ Len(screen) > Len(waits[w].screenBuffer)

\* C3: every waitFor call eventually settles.
C3_EveryWaitSettles ==
    \A w \in WaitIds : [](Used(w) => <>(waits[w].promise # "pending"))

\* C4: a wait resolves with reason timeout only through its timeout timer, T ticks
\* after the call and not before; until it resolves that timer stays armed for
\* startTime + T; the promise is rejected only for a regex that does not compile.
C4_TimeoutAtT ==
    \A w \in WaitIds :
        Used(w) =>
            /\ waits[w].result.reason = "timeout"
               => /\ waits[w].promise = "fulfilled"
                  /\ waits[w].cond.timeout > 0
                  /\ waits[w].result.waitedMs >= waits[w].cond.timeout
            /\ (~waits[w].resolved /\ waits[w].cond.timeout > 0)
               => /\ waits[w].timeoutTimer = waits[w].startTime + waits[w].cond.timeout
                  /\ now <= waits[w].timeoutTimer
            /\ waits[w].promise = "rejected" => waits[w].cond.bad # "none"

\* a wait with nothing but a timeout resolved as timeout
C4_Witness ==
    \E w \in WaitIds :
        /\ waits[w].result.reason = "timeout"
        /\ ~waits[w].cond.pattern /\ ~waits[w].cond.exit /\ waits[w].cond.idle = 0
        /\ waits[w].result.waitedMs = WaitTimeout

\* C5: a wait with not and pattern, called when the history matches both, is
\* rejected.
C5_NotFirstAtCall ==
    \A w \in WaitIds :
        ( /\ Used(w) /\ waits[w].cond.pattern /\ waits[w].cond.not
          /\ waits[w].cond.bad = "none"
          /\ waits[w].atCall.pattern /\ waits[w].atCall.not )
        => waits[w].result.reason = "rejected"

\* the scan string onOutput of wait w would test for the chunk being delivered
ScanOf(w) == SliceLast(waits[w].scanTail \o cur.data, ScanTailLimit)

\* the next step delivers an output chunk to the unresolved wait w
OutputDue(w) ==
    /\ cur.ev = "output" /\ cur.todo # <<>> /\ Head(cur.todo) = WaitHandler(w)
    /\ ~waits[w].resolved

\* C6: for a subscribed wait with not and pattern, each delivered chunk is tested
\* for not first: a chunk on which not matches rejects, one on which only pattern
\* matches resolves as pattern, and one on which neither matches leaves the wait
\* unresolved for the next chunk.
C6_NotFirstPerChunk ==
    [][\A w \in WaitIds :
          ( /\ OutputDue(w)
            /\ waits[w].cond.not /\ waits[w].cond.pattern /\ waits[w].cond.bad = "none" )
          => /\ Match(NotLit, ScanOf(w))
                => waits'[w].resolved /\ waits'[w].result.reason = "rejected"
             /\ (~Match(NotLit, ScanOf(w)) /\ Match(PatternLit, ScanOf(w)))
                => waits'[w].resolved /\ waits'[w].result.reason = "pattern"
             /\ (~Match(NotLit, ScanOf(w)) /\ ~Match(PatternLit, ScanOf(w)))
                => ~waits'[w].resolved]_vars

\* a chunk matching both not and pattern was delivered and rejected the wait
C6_Witness ==
    \E w \in WaitIds :
        /\ waits[w].cond.not /\ waits[w].cond.pattern
        /\ waits[w].result.reason = "rejected"
        /\ waits[w].scanTail # <<>>
        /\ Match(NotLit, waits[w].scanTail) /\ Match(PatternLit, waits[w].scanTail)

\* the reason the pre-checks owe a call, by the precedence pattern, screen, ready,
\* exit ("skip" where the history matches not, which C5 is about)
ExpectedAtCall(w) ==
    LET c == waits[w].cond
        a == waits[w].atCall
    IN  IF c.pattern /\ a.pattern THEN "pattern"
        ELSE IF c.not /\ a.not THEN "skip"
        ELSE IF c.screenPattern /\ a.screen THEN "screen"
        ELSE IF c.ready /\ (a.dead \/ a.noFg) THEN "ready"
        ELSE IF c.exit /\ a.dead THEN "exit"
        ELSE "none"

\* C7: a condition already satisfied when waitFor is called resolves the call at
\* once (in the state the call returns in, with waitedMs = 0), the reason chosen
\* by the precedence pattern, screen, ready, exit; exit carries the recorded code.
C7_SatisfiedAtCall ==
    \A w \in WaitIds :
        (Used(w) /\ waits[w].cond.bad = "none"
                 /\ ExpectedAtCall(w) \notin {"none", "skip"})
        => /\ waits[w].promise = "fulfilled"
           /\ waits[w].result.reason = ExpectedAtCall(w)
           /\ waits[w].result.waitedMs = 0
           /\ waits[w].result.reason = "exit"
              => waits[w].result.exitCode = waits[w].atCall.exitCode

\* an exit wait called after the child exited with code 1 resolved at once
C7_Witness ==
    \E w \in WaitIds :
        /\ waits[w].atCall.dead /\ waits[w].atCall.exitCode = 1
        /\ waits[w].result.reason = "exit" /\ waits[w].result.exitCode = 1
        /\ waits[w].result.waitedMs = 0

\* C8: the child's exit makes exactly one exit event, and while its subscribers
\* are being invoked the session reports alive = false and the event's code.
C8_OneExitAfterState ==
    /\ exitEmits <= 1
    /\ (child = "exited") <=> (exitEmits = 1)
    /\ cur.ev = "exit" => ~alive /\ exitCode = cur.code

\* the exit event is about to be handed to a wait's subscriber
C8_Witness ==
    /\ cur.ev = "exit" /\ cur.code = 1
    /\ \E w \in WaitIds : Head(cur.todo) = WaitHandler(w)

LinesOf(s) == AllButLast(SplitNL(s))
Example == <<"1", NL, "2", NL, "3", NL, "4", NL, "5", NL>>

\* C10: after any appends to a History of capacity N it stores at most N complete
\* lines, and they are the last complete lines appended, in order; "1\n2\n3\n4\n5\n"
\* into capacity 3 gives lineCount() = 3 and getAll() = "3\n4\n5".
C10_HistoryBounded ==
    /\ Len(hist.lines) <= hist.limit
    /\ hist.lines = LastN(LinesOf(appended), hist.limit)
    /\ (hist.limit = 3 /\ appended = Example)
       => /\ History_lineCount(hist) = 3
          /\ History_getAll(hist) = <<"3", NL, "4", NL, "5">>

\* the example of the claim: five lines appended to capacity 3, two evicted
C10_Witness ==
    hist.limit = 3 /\ appended = Example /\ Len(hist.lines) = 3


\* the number of newlines in s, i.e. of complete lines
RECURSIVE CountNL(_)
CountNL(s) == IF s = <<>> THEN 0 ELSE (IF Head(s) = NL THEN 1 ELSE 0) + CountNL(Tail(s))

\* s without its first k complete lines (each with its newline)
RECURSIVE DropLines(_, _)
DropLines(s, k) ==
    IF k = 0 \/ s = <<>> THEN s
    ELSE DropLines(Tail(s), IF Head(s) = NL THEN k - 1 ELSE k)

\* everything appended, less the complete lines evicted beyond the capacity
Retained ==
    LET n == CountNL(appended)
    IN  DropLines(appended, IF n > hist.limit THEN n - hist.limit ELSE 0)

\* s without one final newline
StripNL(s) == IF s # <<>> /\ LastOf(s) = NL THEN AllButLast(s) ELSE s

\* C11 as claimed: getAll() is the concatenation of the appended chunks less the
\* evicted complete lines.
C11_GetAllIsConcat == History_getAll(hist) = Retained

\* C11 as amended: getAll() is the concatenation of the appended chunks less the
\* evicted complete lines and less one final newline, if it ends with one.
C11_GetAllIsConcatStripped == History_getAll(hist) = StripNL(Retained)

\* chunks ending in a newline were appended, lines were evicted, one is kept
C11_Witness ==
    /\ appends >= 2 /\ hist.limit = 1 /\ CountNL(appended) > 1
    /\ LastOf(appended) = NL /\ History_getAll(hist) # <<>>

\* C12: a hook added with once runs its command at most once, and from the first
\* fire() that triggers it on it is not in the hook manager.
C12_OnceFiresOnce ==
    \A id \in HookIds :
        (hookReg[id] # NoHook /\ hookReg[id].once)
        => /\ hookRuns[id] <= 1
           /\ hookRuns[id] <= hookSeen[id]
           /\ hookSeen[id] >= 1 => ~HookPresent(hooks, id)

\* a once hook for ready and exit was triggered three times and ran once
C12_Witness ==
    \E id \in HookIds :
        /\ hookReg[id] # NoHook /\ hookReg[id].once /\ hookReg[id].onExit
        /\ hookSeen[id] = 3 /\ hookRuns[id] = 1

\* C13: a wait resolves with reason idle only I after the later of its start and
\* the last output chunk delivered to it, so waitedMs >= I; until it resolves its
\* idle timer is armed for exactly that time (every chunk re-arms it).
C13_IdleAfterQuiet ==
    \A w \in WaitIds :
        (Used(w) /\ waits[w].cond.bad = "none")
        => /\ waits[w].result.reason = "idle"
              => /\ waits[w].cond.idle > 0
                 /\ waits[w].result.waitedMs >= waits[w].cond.idle
                 /\ waits[w].startTime + waits[w].result.waitedMs
                        >= waits[w].lastOutputAt + waits[w].cond.idle
           /\ (~waits[w].resolved /\ waits[w].cond.idle > 0)
              => waits[w].idleTimer = waits[w].lastOutputAt + waits[w].cond.idle

\* a chunk was delivered to the wait after its start, and the wait resolved as
\* idle a full window after that chunk
C13_Witness ==
    \E w \in WaitIds :
        /\ waits[w].result.reason = "idle"
        /\ waits[w].lastOutputAt > waits[w].startTime
        /\ waits[w].result.waitedMs > waits[w].cond.idle
        /\ waits[w].result.output # <<>>

\* C14: the ready events emitted for a session are as many as the busy-to-idle
\* changes between consecutive observations of it by the poller (a first
\* observation emits nothing), and the poller's record of a live registered
\* session is its last observation.
C14_ReadyPerTransition ==
    \A id \in RegIds :
        /\ readyEmits[id] = transitions[id]
        /\ (InRegistry(regOrder, id) /\ sess[id].state = "live")
           => readyState[id] = (IF lastObs[id] = "none" THEN "unknown" ELSE lastObs[id])

\* one session was seen idle, busy, idle (one ready); the other was first seen
\* idle, which emitted nothing
C14_Witness ==
    /\ polls = 3
    /\ readyEmits["a"] = 1 /\ transitions["a"] = 1 /\ lastObs["a"] = "idle"
    /\ readyEmits["b"] = 0 /\ lastObs["b"] = "idle"

\* the step is a registry call naming an id that is not in the registry
UnknownIdCall == calls' = calls + 1 /\ ~lastCall'.known

\* the registry, its sessions and its events are as before the step
RegistryUntouched ==
    UNCHANGED <<regOrder, sess, readyState, readyEmits, destroyEmits, destroySeen>>

\* C19 as claimed: send, sendKey, sendKeys, kill, capture, waitFor and
\* destroySession with an id that is not in the registry fail with a not-found
\* error and change nothing.
C19_UnknownIdFails ==
    [][UnknownIdCall => (lastCall'.outcome = "notFound" /\ RegistryUntouched)]_vars

\* C19 as amended: with an id that is not in the registry, send, sendKey, sendKeys,
\* kill, capture and waitFor fail with a not-found error and destroySession returns
\* without one; all of them leave the registry and its sessions unchanged and emit
\* nothing.
C19_UnknownIdNoEffect ==
    [][UnknownIdCall =>
          /\ lastCall'.outcome = (IF lastCall'.op = "destroySession"
                                  THEN "returned" ELSE "notFound")
          /\ RegistryUntouched]_vars

\* while a live session was registered, a call naming an unknown id failed as not
\* found, and no session was destroyed
C19_Witness ==
    /\ calls = 2 /\ lastCall.id = UnknownId /\ lastCall.outcome = "notFound"
    /\ \E id \in RegIds : InRegistry(regOrder, id) /\ sess[id].state = "live"
    /\ \A id \in RegIds : destroyEmits[id] = 0

\* C20: destroySession of a registered id disposes the session, removes it from the
\* registry and emits session:destroy once, to subscribers that find the session
\* disposed and gone from the registry; a further destroySession emits nothing.
C20_DestroyThenEmit ==
    \A id \in RegIds :
        /\ destroyEmits[id] <= 1
        /\ (destroyEmits[id] = 1) <=> (sess[id].state # "none" /\ ~InRegistry(regOrder, id))
        /\ destroyEmits[id] = 1 => sess[id].disposed
        /\ destroySeen[id].seen <=> destroyEmits[id] = 1
        /\ destroySeen[id].seen => destroySeen[id].disposed /\ ~destroySeen[id].registered

\* a session was destroyed while another stayed registered, and destroying it a
\* second time emitted nothing more
C20_Witness ==
    \E id \in RegIds :
        /\ destroyEmits[id] = 1 /\ destroySeen[id].seen
        /\ lastCall.op = "destroySession" /\ lastCall.id = id /\ ~lastCall.known
        /\ \E other \in RegIds : InRegistry(regOrder, other)

IsLetter(ch) ==
    \/ CharCode(ch) >= 65 /\ CharCode(ch) <= 90
    \/ CharCode(ch) >= 97 /\ CharCode(ch) <= 122

\* the key and modifier combinations the encoding rules name
Covered(k) ==
    CASE k.kind = "text" -> TRUE
      [] k.kind = "named" -> k.name \in DOMAIN KEY_MAP
      [] k.kind = "mod" /\ k.keyType = "string" /\ Len(k.text) = 1 ->
            \/ ~AnyModifier(k)
            \/ k.ctrl /\ ~k.alt /\ ~k.meta /\ IsLetter(k.text[1])
            \/ k.alt /\ ~k.ctrl /\ ~k.meta
      [] k.kind = "mod" /\ k.keyType = "symbol" /\ k.name \in DOMAIN KEY_MAP ->
            \/ ~AnyModifier(k)
            \/ k.name = "Tab" \/ k.name \in DOMAIN ARROW_BASE
            \/ k.alt /\ ~k.ctrl /\ ~k.meta
      [] OTHER -> FALSE

\* the key of the input is a string or a symbol with an entry in KEY_MAP
KnownKey(k) ==
    \/ k.kind = "text"
    \/ k.kind \in {"named", "mod"} /\ k.keyType = "symbol" /\ k.name \in DOMAIN KEY_MAP
    \/ k.kind = "mod" /\ k.keyType = "string"

\* the encoding of the key of the input without its modifiers; a string key of any
\* length with Alt (no Ctrl, no Meta) keeps the ESC prefix of a character
BaseBytes(k) ==
    IF k.keyType = "symbol" THEN KEY_MAP[k.name]
    ELSE IF k.alt /\ ~k.ctrl /\ ~k.meta THEN <<ESC>> \o k.text
    ELSE k.text

\* C18 as claimed: encodeKey returns bytes for the combinations the encoding rules
\* cover and fails for every other.
C18_UncoveredFails == keyOut # NoKeyOut => (keyOut.ok <=> Covered(keyIn))

\* C18 as amended: encodeKey fails exactly when the key is neither a string nor a
\* named key with an entry in the key table; a combination of a known key and
\* modifiers that the rules do not cover is encoded as the key without modifiers
\* (a string key longer than one character with Alt as ESC + the string).
C18_FailsOnlyForUnknownKey ==
    keyOut # NoKeyOut
    => /\ keyOut.ok <=> KnownKey(keyIn)
       /\ (keyOut.ok /\ ~Covered(keyIn)) => keyOut.bytes = BaseBytes(keyIn)
       /\ ~keyOut.ok => keyOut.bytes = <<>> /\ keyOut.error # "none"

\* Ctrl+Alt with a character was encoded as the character itself
C18_Witness ==
    /\ keyIn.kind = "mod" /\ keyIn.keyType = "string" /\ keyIn.ctrl /\ keyIn.alt
    /\ keyOut.ok /\ keyOut.bytes = <<"c">>

\* C15: send, sendKey and sendKeys on a session whose child has exited fail, write
\* nothing to the PTY and make no entry in the input history or the input log.
C15_DeadSessionRefuses ==
    (lastSend.op # "none" /\ ~lastSend.alive)
    => /\ lastSend.outcome = "notAlive"
       /\ lastSend.wrote = <<>>
       /\ lastSend.appendCalls = 0 /\ lastSend.logged = 0

\* after a successful write the child exited, and a sendKeys with two keys failed
C15_Witness ==
    /\ ptyWritten # <<>> /\ inputHistory # History_new(HistoryLimit)
    /\ lastSend.op = "sendKeys" /\ ~lastSend.alive /\ lastSend.outcome = "notAlive"
    /\ logInput /\ logStream

\* C17: a sendKey or sendKeys call that fails because a key cannot be encoded has
\* written nothing to the PTY and made no entry in the input history or the input
\* log.
C17_BadKeyNoEffect ==
    lastSend.outcome = "invalidKey"
    => /\ lastSend.wrote = <<>>
       /\ lastSend.appendCalls = 0 /\ lastSend.logged = 0

\* C16: a waitFor call that failed on an invalid regular expression has left no
\* subscription of that wait on the session and no timer of that wait armed.
C16_BadRegexLeavesNothing ==
    \A w \in WaitIds :
        (Used(w) /\ waits[w].promise = "rejected")
        => ~HasHandler(w) /\ ~AnyTimer(w)

\* the token of one key in the input history: a string key is its text, any other
\* key is <Mods+Name> with the modifiers in the order Ctrl, Alt, Shift, Meta
KeyToken(k) ==
    IF k.kind = "text" THEN k.text
    ELSE <<"<">>
         \o (IF k.kind = "mod" /\ k.ctrl THEN <<"Ctrl", "+">> ELSE <<>>)
         \o (IF k.kind = "mod" /\ k.alt THEN <<"Alt", "+">> ELSE <<>>)
         \o (IF k.kind = "mod" /\ k.shift THEN <<"Shift", "+">> ELSE <<>>)
         \o (IF k.kind = "mod" /\ k.meta THEN <<"Meta", "+">> ELSE <<>>)
         \o (IF k.kind = "mod" /\ k.keyType = "string" THEN k.text ELSE <<k.name>>)
         \o <<">">>

RECURSIVE TokensOf(_)
TokensOf(keys) == IF keys = <<>> THEN <<>> ELSE KeyToken(Head(keys)) \o TokensOf(Tail(keys))

\* C21: with input logging enabled the input history holds exactly the texts and
\* key tokens of the successful send, sendKey and sendKeys calls, in call order;
\* with input logging disabled it stays empty while the bytes of those calls are
\* written to the PTY.
C21_InputHistoryIsSuccessfulCalls ==
    /\ logInput => inputHistory = History_append(History_new(HistoryLimit), TokensOf(okSent))
    /\ ~logInput => /\ inputHistory = History_new(HistoryLimit)
                    /\ ptyWritten = encodeKeys(okSent).bytes

\* the control byte of a letter of either case: its position in the alphabet
CtrlByteOf(ch) ==
    CASE ch \in {"a"} -> "^A" [] ch \in {"c", "C"} -> "^C" [] ch \in {"z", "Z"} -> "^Z"

\* the key is a single letter with Ctrl and neither Alt nor Meta
CtrlLetter(k) ==
    /\ k.kind = "mod" /\ k.keyType = "string" /\ Len(k.text) = 1
    /\ k.text[1] \in {"a", "c", "z", "C", "Z"}
    /\ k.ctrl /\ ~k.alt /\ ~k.meta

\* C28: for a letter of either case with Ctrl and neither Alt nor Meta, encodeKey
\* returns the single control byte of that letter, with or without Shift.
C28_CtrlLetterAbsorbsShift ==
    (keyOut # NoKeyOut /\ CtrlLetter(keyIn))
    => keyOut = Encoded(<<CtrlByteOf(keyIn.text[1])>>)

\* Ctrl+Shift+C (upper case) was encoded as 0x03
C28_Witness ==
    /\ CtrlLetter(keyIn) /\ keyIn.text = <<"C">> /\ keyIn.shift
    /\ keyOut = Encoded(<<"^C">>)

\* the entries of the history: the complete lines, then the partial line if any
Entries(h) == IF h.currentLine # <<>> THEN Append(h.lines, h.currentLine) ELSE h.lines

\* C26: for every k >= 0, tail(k) is the last min(k, lineCount()) entries of the
\* history joined by newline.
C26_TailIsLastK ==
    query.op = "tail"
    => query.result =
         JoinNL(LastN(Entries(hist),
                      IF query.n < History_lineCount(hist) THEN query.n
                      ELSE History_lineCount(hist)))

\* the columns (from 0) at which pat occurs in line
Occurrences(pat, line) ==
    { c \in 0..(Len(line) - Len(pat)) : SubSeq(line, c + 1, c + Len(pat)) = pat }

\* the leftmost non-overlapping occurrences: no two overlap, and every occurrence
\* left out overlaps a chosen one that starts before it
NonOverlapping(pat, line) ==
    CHOOSE G \in SUBSET Occurrences(pat, line) :
        /\ \A p, q \in G : p < q => p + Len(pat) <= q
        /\ \A p \in Occurrences(pat, line) \ G :
              \E q \in G : q < p /\ p < q + Len(pat)

\* the columns search has to report for a line
ExpectedColumns(re, line) ==
    IF re.global THEN NonOverlapping(re.source, line)
    ELSE IF Occurrences(re.source, line) = {} THEN {}
    ELSE { CHOOSE c \in Occurrences(re.source, line) :
              \A d \in Occurrences(re.source, line) : c <= d }

\* C27: search reports, line by line and left to right, one match at the first
\* occurrence of every matching line for a non-global regex, and every
\* non-overlapping match of every line for a global one, whatever lastIndex the
\* regex came with or was left with by the line before.
C27_SearchPerLine ==
    query.op = "search"
    => LET res == query.result
       IN  /\ \A i \in 1..Len(res) :
                 /\ res[i].line \in 0..(Len(hist.lines) - 1)
                 /\ res[i].text = query.re.source
           /\ \A i, j \in 1..Len(res) :
                 i < j => \/ res[i].line < res[j].line
                          \/ res[i].line = res[j].line /\ res[i].column < res[j].column
           /\ \A l \in 1..Len(hist.lines) :
                 { res[i].column : i \in { j \in 1..Len(res) : res[j].line = l - 1 } }
                   = ExpectedColumns(query.re, hist.lines[l])

\* a global regex that came with lastIndex 1 found 11 once in each of two lines 111
C27_Witness ==
    /\ query.op = "search" /\ query.re.global /\ query.re.lastIndex = 1
    /\ query.re.source = <<"1", "1">>
    /\ Len(query.result) = 2
    /\ query.result[1].line = 0 /\ query.result[2].line = 1
    /\ query.result[1].column = 0 /\ query.result[2].column = 0

\* C24: an emit invokes every subscriber of its event once, in the order of their
\* subscriptions, whether or not some of them throw; each exception is logged and
\* none reaches the code that emitted the event.
C24_EmitInOrderDespiteThrows ==
    emLast.ev # "none"
    => LET inv == emLast.invoked
       IN  /\ { inv[i] : i \in 1..Len(inv) } = { f \in EmHandlers : emAt[emLast.ev][f] > 0 }
           /\ \A i, j \in 1..Len(inv) :
                 i < j => emAt[emLast.ev][inv[i]] < emAt[emLast.ev][inv[j]]
           /\ ~emLast.thrown
           /\ emLast.logged = Cardinality({ i \in 1..Len(inv) : inv[i] \in emThrows })

\* three subscribers were invoked although the first of them threw
C24_Witness ==
    /\ Len(emLast.invoked) = 3
    /\ emLast.invoked[1] \in emThrows /\ emLast.invoked[3] \notin emThrows
    /\ emLast.logged >= 1

\* the bytes of the first n chunks of the stream
RECURSIVE StreamUpTo(_)
StreamUpTo(n) == IF n = 0 THEN <<>> ELSE StreamUpTo(n - 1) \o stream[n]

\* the writes that swapToFallback and the write that called it gave the fallback
\* have all been applied
SwapSettled ==
    /\ lastSwap.chunk > 0
    /\ \A i \in 1..Len(engine.queue) : engine.queue[i].chunk > lastSwap.chunk

\* C25: when the primary engine throws on chunk d, the fallback that takes over is
\* fed exactly the replay window, the most recent MaxReplayBytes bytes written up to
\* and including d, each once and in order; the window never exceeds MaxReplayBytes.
C25_FallbackFedWindowOnce ==
    /\ Len(engine.replay) <= MaxReplayBytes
    /\ SwapSettled
       => lastSwap.given = SliceLast(StreamUpTo(lastSwap.chunk), MaxReplayBytes)

\* the events of one type emitted for chunk n
EventsFor(type, n) ==
    { i \in 1..Len(outEvents) : outEvents[i].type = type /\ outEvents[i].chunk = n }

\* the callbacks of chunk n that xterm still holds
QueuedFor(n) == { i \in 1..Len(engine.queue) : engine.queue[i].chunk = n }

\* C22: the replies of the auto-responder go to the PTY only: the output history
\* holds the delivered chunks and nothing else, and the output and screen events
\* are those of the delivered chunks, at most one of each per chunk.
C22_RepliesOnlyToPty ==
    /\ outHistory = History_append(History_new(HistoryLimit), StreamUpTo(Len(stream)))
    /\ \A i \in 1..Len(outEvents) : outEvents[i].chunk \in 1..Len(stream)
    /\ \A n \in 1..Len(stream) :
          /\ Cardinality(EventsFor("output", n)) = 1
          /\ Cardinality(EventsFor("screen", n)) <= 1

\* two queries were answered: the replies are in the PTY input, not in the history
C22_Witness ==
    /\ Len(replyLog) >= 2 /\ ptyIn # <<>>
    /\ \E i \in 1..Len(replyLog) : replyLog[i] = "DA1"
    /\ ~Match(<<"R">>, History_getAll(outHistory))

\* C23: each chunk gets exactly one screen event, emitted (at once, or when xterm
\* has parsed the chunk) only after the engine applied the chunk's bytes, also for
\* the chunk on which the engine fell back.
C23_ScreenAfterApplied ==
    /\ \A n \in 1..Len(stream) :
          Cardinality(EventsFor("screen", n)) + Cardinality(QueuedFor(n)) = 1
    /\ \A i \in 1..Len(outEvents) : outEvents[i].type = "screen" => outEvents[i].applied

\* the chunk on which the engine fell back to an xterm without writeSync got its
\* screen event after its output event, once parsed
C23_Witness ==
    /\ lastSwap.chunk = 2 /\ ~engine.writeSync
    /\ \E i, j \in 1..Len(outEvents) :
          /\ i < j
          /\ outEvents[i].type = "output" /\ outEvents[i].chunk = 2
          /\ outEvents[j].type = "screen" /\ outEvents[j].chunk = 2 /\ outEvents[j].applied

\* the places (from 1) of the whole stream at which query q occurs
QueryOccurrences(q) ==
    LET all == StreamUpTo(Len(stream))
    IN  { i \in 1..Len(all) :
            \E needle \in q.needles :
                /\ i + Len(needle) - 1 <= Len(all)
                /\ SubSeq(all, i, i + Len(needle) - 1) = needle }

\* the replies written for query q
RepliesTo(q) == { i \in 1..Len(replyLog) : replyLog[i] = q.note }

\* C29: each occurrence of a recognized query in the output stream has exactly one
\* reply: per query, as many replies were written as the stream holds occurrences.
C29_OneReplyPerQuery ==
    \A k \in 1..Len(TerminalQueries) :
        Cardinality(RepliesTo(TerminalQueries[k]))
          = Cardinality(QueryOccurrences(TerminalQueries[k]))

\* the most recent ScanTailLimit bytes of the output wait w received
RecentOutput(w) == SliceLast(waits[w].received, ScanTailLimit)

\* C30: once the output received during a wait holds the pattern (or the not
\* pattern) within its most recent ScanTailLimit bytes, however the chunks split
\* it, the wait is resolved as pattern or rejected; the scan tail is those most
\* recent bytes and never longer than ScanTailLimit.
C30_MatchAcrossChunks ==
    \A w \in WaitIds :
        (Used(w) /\ waits[w].cond.bad = "none" /\ waits[w].received # <<>>)
        => /\ waits[w].scanTail = RecentOutput(w)
           /\ Len(waits[w].scanTail) <= ScanTailLimit
           /\ ( \/ waits[w].cond.pattern /\ Match(PatternLit, RecentOutput(w))
                \/ waits[w].cond.not /\ Match(NotLit, RecentOutput(w)) )
              => /\ waits[w].resolved
                 /\ waits[w].result.reason \in {"pattern", "rejected"}

\* the pattern was found across two chunks of which the first is longer than the
\* scan tail and matches nothing by itself
C30_Witness ==
    \E w \in WaitIds :
        /\ waits[w].result.reason = "pattern" /\ ~waits[w].atCall.pattern
        /\ Len(waits[w].received) > ScanTailLimit
        /\ waits[w].received = Filler \o <<"o", "k">>
        /\ Len(waits[w].scanTail) = ScanTailLimit

\* one append of everything, computed without the loop of append: the text between
\* the newlines, the last limit complete lines kept
WholeAppend(limit, data) ==
    LET parts == SplitNL(data)
    IN  [lines |-> LastN(AllButLast(parts), limit), currentLine |-> LastOf(parts),
         limit |-> limit]

\* C39: the History after any sequence of appends is the History after one append
\* of the concatenation: same complete lines, same partial line, same evictions.
C39_ChunkingIrrelevant == hist = WholeAppend(hist.limit, appended)

\* three appends that split a line, with a line evicted
C39_Witness ==
    /\ appends = 3 /\ hist.limit = 1
    /\ appended = <<"1", "2", NL, "3", "1", NL>>
    /\ hist.lines = <<<<"3", "1">>>>

\* the next step delivers the child's exit to the unresolved wait w
ExitDue(w) ==
    /\ cur.ev = "exit" /\ cur.todo # <<>> /\ Head(cur.todo) = WaitHandler(w)
    /\ ~waits[w].resolved

\* C33: the exit event delivered to a pending wait resolves it as exit with the
\* child's code if exit was requested, otherwise as ready if ready was requested,
\* and leaves it pending if neither was.
C33_ExitResolvesExitThenReady ==
    [][\A w \in WaitIds :
          ExitDue(w)
          => /\ waits[w].cond.exit
                => /\ waits'[w].resolved /\ waits'[w].result.reason = "exit"
                   /\ waits'[w].result.exitCode = cur.code /\ cur.code = exitCode
             /\ (~waits[w].cond.exit /\ waits[w].cond.ready)
                => waits'[w].resolved /\ waits'[w].result.reason = "ready"
             /\ (~waits[w].cond.exit /\ ~waits[w].cond.ready)
                => ~waits'[w].resolved]_vars

\* a wait for exit and ready, pending when the child exited with code 1, resolved
\* as exit with that code
C33_Witness ==
    \E w \in WaitIds :
        /\ waits[w].cond.exit /\ waits[w].cond.ready
        /\ ~waits[w].atCall.dead /\ child = "exited"
        /\ waits[w].result.reason = "exit" /\ waits[w].result.exitCode = 1

\* a wait for ready alone was resolved by the child's exit
C33_WitnessReady ==
    \E w \in WaitIds :
        /\ ~waits[w].cond.exit /\ waits[w].cond.ready
        /\ ~waits[w].atCall.dead /\ child = "exited" /\ fgBusy
        /\ waits[w].result.reason = "ready"

\* C31: a pattern wait whose pattern did not match the history at the call, and
\* whose first chunk completes a match in the session's cumulative output (the
\* history, which already holds that chunk when it is delivered), resolves as
\* pattern on that chunk.
C31_MatchAcrossCallBoundary ==
    [][\A w \in WaitIds :
          ( /\ OutputDue(w) /\ waits[w].received = <<>>
            /\ waits[w].cond.pattern /\ ~waits[w].cond.not /\ waits[w].cond.bad = "none"
            /\ ~waits[w].atCall.pattern
            /\ Match(PatternLit, History_getAll(history)) )
          => waits'[w].resolved /\ waits'[w].result.reason = "pattern"]_vars

\* C32: the output a wait outcome carries is never longer than the bound the wait
\* keeps (the scan tail limit, the one bound of waitFor), whatever the history held
\* at the call and whatever arrived during the wait.
C32_OutcomeOutputBounded ==
    \A w \in WaitIds :
        waits[w].resolved => Len(waits[w].result.output) <= ScanTailLimit

\* the screen event of a chunk is being delivered to the unresolved wait w, and the
\* output event of the same chunk, whose bytes match not, is still to be emitted
ScreenDueOnNotChunk(w) ==
    /\ cur.ev = "screen" /\ cur.todo # <<>> /\ Head(cur.todo) = WaitHandler(w)
    /\ ~waits[w].resolved
    /\ pending # <<>> /\ Head(pending).ev = "output"
    /\ Match(NotLit, Head(pending).data)

\* C35: a wait with not and screenPattern does not resolve as screen on a chunk
\* whose bytes match not.
C35_NotBeforeScreen ==
    [][\A w \in WaitIds :
          ( /\ ScreenDueOnNotChunk(w)
            /\ waits[w].cond.not /\ waits[w].cond.screenPattern
            /\ waits[w].cond.bad = "none" )
          => ~(waits'[w].resolved /\ waits'[w].result.reason = "screen")]_vars

\* C37: once the exit event of the child has been dispatched, the session has no
\* subscriber left for any event.
C37_NoSubscribersAfterExit ==
    (child = "exited" /\ Idle) => handlers = NoHandlers

\* the output events emitted so far, in emission order
OutputEvents == SelectSeq(outEvents, LAMBDA e : e.type = "output")

\* C34: the output events are one per chunk in the order the chunks were read, and
\* at each of them the output history is what appending the chunks read so far,
\* that one included, leaves (their concatenation minus the evicted lines).
C34_OutputAfterAppend ==
    /\ Len(OutputEvents) = Len(stream)
    /\ \A i \in 1..Len(OutputEvents) :
          /\ OutputEvents[i].chunk = i
          /\ OutputEvents[i].history =
                History_append(History_new(HistoryLimit), StreamUpTo(i))

\* three chunks were read and the third output event saw all three in the history
C34_Witness ==
    /\ Len(stream) = 3 /\ Len(OutputEvents) = 3
    /\ stream[1] = <<"a">> /\ stream[2] = <<"b", NL>> /\ stream[3] = <<"a">>
    /\ OutputEvents[3].history.lines = <<<<"a", "b">>>>
    /\ OutputEvents[3].history.currentLine = <<"a">>

\* the session with this id was in the registry and has been destroyed
Gone(sid) == destroyEmits[sid] > 0 /\ ~InRegistry(regOrder, sid)

\* C38: no fire() runs the command of a hook whose session (the session id the
\* fire is for) has left the registry.
C38_NoRunForGoneSession ==
    [][\A id \in HookIds :
          hookRuns'[id] > hookRuns[id] => ~Gone(hookReg[id].sessionId)]_vars

\* the matches the running or finished search has pushed for line l (from 0)
MatchesOfLine(l) == SelectSeq(srch.matches, LAMBDA m : m.line = l)

\* C40: the matches a search collects for a line are at most the length of
\* the line plus one (a search that goes past it on a line pushes the same match
\* again and again, and does not return).
C40_MatchesPerLineBounded ==
    \A l \in 0..(Len(hist.lines) - 1) :
        Len(MatchesOfLine(l)) <= Len(hist.lines[l + 1]) + 1

\* when the stepwise search of a pattern that cannot match the empty string
\* returns, it returns the lines and columns History_search computes
SearchStepsAgree ==
    [][(srch'.returned /\ srch' # srch /\ srch.regex.source # <<>>)
       => LET res == History_search(hist, srch.regex)
          IN  /\ Len(srch'.matches) = Len(res)
              /\ \A k \in 1..Len(res) :
                    /\ srch'.matches[k].line = res[k].line
                    /\ srch'.matches[k].column = res[k].column]_vars


\* the step runs a callback of wait w: its handler is invoked, or its record changes
WaitStep(w) ==
    \/ waits'[w] # waits[w]
    \/ cur.todo # <<>> /\ Head(cur.todo) = WaitHandler(w)

\* wait v is subscribed to event ev in the subscriber sets hs
Subscribed(hs, v, ev) == \E i \in 1..Len(hs[ev]) : hs[ev][i] = WaitHandler(v)

\* the reason wait w resolved with is one its own condition asks for
ReasonFits(w) ==
    LET c == waits[w].cond
        r == waits[w].result.reason
    IN  /\ r = "pattern" => c.pattern
        /\ r = "rejected" => c.not
        /\ r = "screen" => c.screenPattern
        /\ r = "idle" => c.idle > 0
        /\ r = "timeout" => c.timeout > 0
        /\ r = "exit" => c.exit
        /\ r = "ready" => c.ready

\* C36: a callback of one wait (also one that resolves it from inside the dispatch
\* of an event) leaves every other pending wait as it is: its record with its
\* timers, its subscriptions, and its turn in the running dispatch; and each wait
\* is resolved by the events delivered to it exactly as its own condition says.
C36_WaitsIndependent ==
    /\ [](\A w \in WaitIds : ReasonFits(w))
    /\ [][\A w, v \in WaitIds :
            (w # v /\ Pending(v) /\ WaitStep(w))
            => /\ waits'[v] = waits[v]
               /\ \A ev \in EventNames :
                     Subscribed(handlers, v, ev) => Subscribed(handlers', v, ev)
               /\ (cur.todo # <<>> /\ Head(cur.todo) = WaitHandler(w) /\ InLoop(v))
                  => /\ cur'.ev = cur.ev /\ cur'.data = cur.data
                     /\ \E i \in 1..Len(cur'.todo) : cur'.todo[i] = WaitHandler(v)]_vars
    /\ [][\A v \in WaitIds :
            /\ OutputDue(v)
               => (waits'[v].resolved
                   <=> \/ waits[v].cond.not /\ Match(NotLit, ScanOf(v))
                       \/ waits[v].cond.pattern /\ Match(PatternLit, ScanOf(v)))
            /\ ExitDue(v)
               => (waits'[v].resolved <=> (waits[v].cond.exit \/ waits[v].cond.ready))]_vars

\* one chunk resolved both waits, the first as pattern from inside the dispatch,
\* the second, invoked after it, as rejected
C36_Witness ==
    /\ chunks = 1
    /\ waits[1].result.reason = "pattern" /\ waits[1].received = <<"e", "o", "k">>
    /\ waits[2].result.reason = "rejected" /\ waits[2].received = <<"e", "o", "k">>
    /\ waits[1].atCall.dead = FALSE /\ waits[2].atCall.dead = FALSE
====
